---- MODULE Spec2Model ----
(***************************************************************************)
(* Model of the BookBrain-AI layout reconstruction pipeline:               *)
(*   step4_to_json.build_hierarchy      (hierarchy builder)                *)
(*   step3_classify_blocks              (column ordering + classification) *)
(*   step1_column_extractor             (merge passes)                     *)
(*   step3_figure_extractor             (figure file names)                *)
(*   text_extractor                     (noise filter)                     *)
(*   pipeline.run_pdf_pipeline          (one run: classify, build, ingest) *)
(*   classify_blocks                    (rule-based block classifier)      *)
(*   step2_structure_builder            (NCERT and Enhanced builders)      *)
(*   text_extractor.extract_page_blocks (cutoffs, noise, split headings)   *)
(*   retriever.PhysicsRetriever         (chapter filter of retrieve)       *)
(*   ingest.ingest_data                 (chunking, upload, progress)       *)
(*   main.inject_images_in_text         (figure labels from file names)    *)
(* A text is a sequence of one-character strings, so that split, strip,    *)
(* upper, count and the regular expressions are computed on characters.    *)
(***************************************************************************)
EXTENDS Integers, Sequences, FiniteSets, TLC

VARIABLES
    \* ---- step4_to_json.build_hierarchy
    sections,       \* root["sections"]: every Section dict, in order of creation
    subsecs,        \* heap of Subsection dicts, in order of creation
    curr_sec,       \* index into sections, 0 = None
    curr_subsec,    \* index into subsecs, 0 = None
    in_exercises,   \* the latch
    exercises,      \* root["exercises"]
    preamble,       \* root["preamble"], <<>> while the key is absent
    has_preamble,   \* "preamble" in root
    consumed,       \* the items of classified_items iterated so far
    bpc,            \* "idle" | "loop" | "raised" | "done"
    \* ---- step3_classify_blocks.classify_and_clean
    doc,            \* the pages of the opened PDF
    page_num,       \* number of pages whose blocks have been ordered
    ordered_blocks, \* left_col + right_col of the current page
    block_i,        \* i, the index of the while loop, 0-based as in the code
    all_items,      \* the classified stream
    fig_counter,
    images,         \* the image paths written by pix.save
    item_src,       \* history: for each element of all_items, the block it came from
    cpc,            \* "idle" | "page" | "items" | "raised" | "closed"
    \* ---- step1_column_extractor.ProductionColumnExtractor
    m_blocks,       \* the block sequence of the page, as the passes hand it on
    m_prev,         \* the sequence the last pass was applied to
    m_passes,       \* how many passes have been applied
    m_log,          \* history: the names of the passes applied, in order
    mpc,            \* "idle" | "extracted" | "ordered" | "merged"
    \* ---- step3_figure_extractor.NCERTFigureExtractor
    fig_lines,      \* the text lines extract_figures has read
    fig_saved,      \* history: caption line and file name of every "Saved:" print
    fig_files,      \* the file names present in output_folder
    total_figures,
    fpc,            \* "idle" | "lines" | "raised" | "done"
    \* ---- pipeline.run_pdf_pipeline
    pdf_openable,   \* whether fitz.open succeeds on the PDF of the current run
    run_id,         \* str(uuid.uuid4())[:8] of the current run
    fs_dirs,        \* the run directories that exist under output_dir
    structure_files,\* the run directories that hold a structure.json
    collection,     \* the json paths ingest_data has ingested
    runs,           \* number of calls of run_pdf_pipeline so far
    rpc,            \* "idle" | "classify" | "raised" | "complete"
    \* ---- classify_blocks.classify_and_clean
    k_out,          \* all_classified_blocks
    k_pages,        \* number of pages iterated
    kpc,            \* "idle" | "pages" | "closed"
    \* ---- step2_structure_builder.NCERTStructureBuilder
    ncert,          \* self: chapter, current_section, current_subsection, flags
    n_seen,         \* history: the blocks build has iterated over
    npc,            \* "idle" | "build" | "done"
    \* ---- step2_structure_builder.EnhancedStructureBuilder
    enh,            \* self: chapter, current_section, current_subsection
    e_seen,         \* history: the blocks build has iterated over
    epc,            \* "idle" | "build" | "done"
    \* ---- text_extractor.FinalCleanExtractor.extract_page_blocks
    x_raw,          \* raw_blocks = page.get_text("blocks")
    x_i,            \* number of raw blocks the for loop has iterated over
    clean_blocks,   \* clean_blocks, after the return the returned list
    xpc,            \* "idle" | "loop" | "returned"
    \* ---- step3_classify_blocks.get_smart_diagram_areas
    a_paths,        \* the rects of paths = page.get_drawings()
    a_k,            \* number of drawings the for loop has iterated over
    a_bboxes,       \* diagram_bboxes
    apc,            \* "idle" | "loop" | "returned"
    \* ---- retriever.PhysicsRetriever.retrieve
    q_filter,       \* the chapter_filter argument
    q_top_k,        \* the top_k argument
    q_points,       \* the points of the collection
    q_calls,        \* history: the query_filter of every client.query_points call
    q_result,       \* the returned list
    qpc,            \* "idle" | "called" | "returned"
    \* ---- ingest.ingest_data, called from run_pdf_pipeline line 42
    g_in,           \* the call: whether the data loads, len(raw_items), the client, the callback
    g_idx,          \* number of raw items chunked
    g_docs,         \* len(documents)
    g_batch,        \* number of batches embedded and upserted
    g_progress,     \* history: the values passed to progress_callback
    g_col,          \* the collection: "absent" | "old" | "new" (re-created by this call)
    g_upserted,     \* number of points upserted by this call
    g_reported,     \* run_pdf_pipeline has printed "Complete!" and returned
    gpc             \* "idle" | "load" | "chunk" | "upload" | "failed" | "complete"

bvars == <<sections, subsecs, curr_sec, curr_subsec, in_exercises, exercises,
           preamble, has_preamble, consumed, bpc>>

cvars == <<doc, page_num, ordered_blocks, block_i, all_items, fig_counter, images,
           item_src, cpc>>

mvars == <<m_blocks, m_prev, m_passes, m_log, mpc>>

fvars == <<fig_lines, fig_saved, fig_files, total_figures, fpc>>

rvars == <<pdf_openable, run_id, fs_dirs, structure_files, collection, runs, rpc>>

kvars == <<k_out, k_pages, kpc>>

nvars == <<ncert, n_seen, npc>>

evars == <<enh, e_seen, epc>>

xvars == <<x_raw, x_i, clean_blocks, xpc>>

\* the components modelled last
avars == <<a_paths, a_k, a_bboxes, apc>>
qvars == <<q_filter, q_top_k, q_points, q_calls, q_result, qpc>>
gvars == <<g_in, g_idx, g_docs, g_batch, g_progress, g_col, g_upserted, g_reported, gpc>>
last_components == <<xvars, avars, qvars, gvars>>

vars == <<bvars, cvars, mvars, fvars, rvars, kvars, nvars, evars, last_components>>

\* what the steps of one component leave alone
later_components == <<rvars, kvars, nvars, evars, last_components>>
rest_of_build == <<cvars, mvars, fvars, later_components>>
rest_of_pipe == <<mvars, fvars, later_components>>
rest_of_merge == <<bvars, cvars, fvars, later_components>>
rest_of_fig == <<bvars, cvars, mvars, later_components>>
rest_of_run == <<bvars, cvars, mvars, fvars, kvars, nvars, evars,
                      last_components>>
rest_of_classify == <<bvars, cvars, mvars, fvars, rvars, nvars, evars,
                      last_components>>
rest_of_ncert == <<bvars, cvars, mvars, fvars, rvars, kvars, evars,
                      last_components>>
earlier_components == <<bvars, cvars, mvars, fvars, rvars, kvars, nvars, evars>>
rest_of_extract == <<earlier_components, avars, qvars, gvars>>
rest_of_areas == <<earlier_components, xvars, qvars, gvars>>
rest_of_retrieve == <<earlier_components, xvars, avars, gvars>>
rest_of_ingest == <<earlier_components, xvars, avars, qvars>>
rest_of_enh == <<bvars, cvars, mvars, fvars, rvars, kvars, nvars,
                      last_components>>

\* ------------------------------------------------------------------ bounds
MaxItems == 4
MaxBlocks == 3
MaxPages == 1
MaxMathBlocks == 3
MaxPasses == 2
MaxLines == 3

\* ------------------------------------------------------------------ characters
Digits == {"0", "1", "2", "3", "4", "5", "6", "7", "8", "9"}
LowerSeq == <<"a","b","c","d","e","f","g","h","i","j","k","l","m",
              "n","o","p","q","r","s","t","u","v","w","x","y","z">>
UpperSeq == <<"A","B","C","D","E","F","G","H","I","J","K","L","M",
              "N","O","P","Q","R","S","T","U","V","W","X","Y","Z">>
LowerLetters == {LowerSeq[i] : i \in 1..26}
UpperLetters == {UpperSeq[i] : i \in 1..26}
Letters == LowerLetters \cup UpperLetters
IsSpace(c) == c \in {" ", "\t", "\n"}
IsAlnum(c) == c \in Letters \cup Digits

ToUpper(c) == IF c \in LowerLetters
                THEN UpperSeq[CHOOSE i \in 1..26 : LowerSeq[i] = c]
                ELSE c
ToLower(c) == IF c \in UpperLetters
                THEN LowerSeq[CHOOSE i \in 1..26 : UpperSeq[i] = c]
                ELSE c

\* str.upper()
Upper(s) == [i \in 1..Len(s) |-> ToUpper(s[i])]
\* str.lower()
Lower(s) == [i \in 1..Len(s) |-> ToLower(s[i])]

\* sub in s
Contains(s, sub) ==
    \E i \in 0..(Len(s) - Len(sub)) : SubSeq(s, i + 1, i + Len(sub)) = sub

\* s.count(c)
CountChar(s, c) == Cardinality({i \in 1..Len(s) : s[i] = c})

\* str.strip()
Strip(s) ==
    LET keep == {i \in 1..Len(s) : ~IsSpace(s[i])}
    IN  IF keep = {} THEN <<>>
        ELSE SubSeq(s, CHOOSE i \in keep : \A j \in keep : i <= j,
                       CHOOSE i \in keep : \A j \in keep : i >= j)

\* str.split(): the maximal runs of non-whitespace characters
RECURSIVE SplitFrom(_, _)
SplitFrom(s, i) ==
    IF i > Len(s) THEN <<>>
    ELSE IF IsSpace(s[i]) THEN SplitFrom(s, i + 1)
    ELSE LET stops == {j \in i..Len(s) : IsSpace(s[j])}
             e == IF stops = {} THEN Len(s) + 1
                  ELSE CHOOSE j \in stops : \A k \in stops : j <= k
         IN  <<SubSeq(s, i, e - 1)>> \o SplitFrom(s, e)
Split(s) == SplitFrom(s, 1)

\* ------------------------------------------------------------------ texts
T_61      == <<"6",".","1"," ","I","N","T","R","O","D","U","C","T","I","O","N">>
T_62      == <<"6",".","2"," ","C","E","N","T","R","E"," ","O","F"," ","M","A","S","S">>
T_611     == <<"6",".","1",".","1"," ","C","e","n","t","r","e"," ","o","f"," ","M","a","s","s">>
T_6       == <<"6"," ","A">>
T_body    == <<"A"," ","r","i","g","i","d"," ","b","o","d","y"," ","i","s",".",".",".">>
T_marker  == <<"E","x","e","r","c","i","s","e","s">>
T_problem == <<"P","r","o","b","l","e","m"," ","1">>
EXERCISES == <<"E","X","E","R","C","I","S","E","S">>

Item(t, v) == [type |-> t, value |-> v]

\* The classified items a stream is drawn from.
ItemSet == { Item("HEADING", T_61), Item("HEADING", T_62), Item("HEADING", T_611),
             Item("HEADING", T_6), Item("CONTENT", T_body), Item("CONTENT", EXERCISES),
             Item("EXERCISE", T_marker), Item("EXERCISE", T_problem) }

\* ------------------------------------------------------------------ build_hierarchy
\* id_tag = ivalue.split()[0]
id_tag(ivalue) == Split(ivalue)[1]

\* level = id_tag.count('.')
level(tag) == CountChar(tag, ".")

\* "EXERCISES" in ivalue.upper()
marks_exercises_never(ivalue) == FALSE
marks_exercises(ivalue) == Contains(Upper(ivalue), EXERCISES)

\* if itype == "EXERCISE" or in_exercises
goes_to_exercises_by_type(itype) == itype = "EXERCISE"
goes_to_exercises(itype) == itype = "EXERCISE" \/ in_exercises

\* step 1 of the loop body: exercises handling
exercise_branch(ivalue) ==
    /\ in_exercises' = (IF marks_exercises(ivalue) THEN TRUE ELSE in_exercises)
    /\ exercises' = Append(exercises, ivalue)
    /\ UNCHANGED <<sections, subsecs, curr_sec, curr_subsec, preamble, has_preamble>>

\* level == 1: a new Section, appended to root["sections"]
open_section_keep_subsec(tag, ivalue) ==
    /\ sections' = Append(sections, [id |-> tag, title |-> ivalue,
                                     content |-> <<>>, subsections |-> <<>>])
    /\ curr_sec' = Len(sections) + 1
    /\ UNCHANGED <<curr_subsec, subsecs, in_exercises, exercises, preamble, has_preamble>>
open_section_title_as_id(tag, ivalue) ==
    /\ sections' = Append(sections, [id |-> ivalue, title |-> ivalue,
                                     content |-> <<>>, subsections |-> <<>>])
    /\ curr_sec' = Len(sections) + 1
    /\ curr_subsec' = 0
    /\ UNCHANGED <<subsecs, in_exercises, exercises, preamble, has_preamble>>
open_section(tag, ivalue) ==
    /\ sections' = Append(sections, [id |-> tag, title |-> ivalue,
                                     content |-> <<>>, subsections |-> <<>>])
    /\ curr_sec' = Len(sections) + 1
    /\ curr_subsec' = 0
    /\ UNCHANGED <<subsecs, in_exercises, exercises, preamble, has_preamble>>

\* level == 2: a new Subsection, appended to the open Section if there is one
open_subsection(tag, ivalue) ==
    /\ subsecs' = Append(subsecs, [id |-> tag, title |-> ivalue, content |-> <<>>])
    /\ curr_subsec' = Len(subsecs) + 1
    /\ IF curr_sec # 0
         THEN sections' = [sections EXCEPT ![curr_sec].subsections =
                               Append(@, Len(subsecs) + 1)]
         ELSE sections' = sections
    /\ UNCHANGED <<curr_sec, in_exercises, exercises, preamble, has_preamble>>

\* step 3 of the loop body: content placement
place_content(ivalue) ==
    IF curr_subsec # 0
      THEN /\ subsecs' = [subsecs EXCEPT ![curr_subsec].content = Append(@, ivalue)]
           /\ UNCHANGED <<sections, preamble, has_preamble>>
      ELSE IF curr_sec # 0
        THEN /\ sections' = [sections EXCEPT ![curr_sec].content = Append(@, ivalue)]
             /\ UNCHANGED <<subsecs, preamble, has_preamble>>
        ELSE /\ preamble' = Append(preamble, ivalue)
             /\ has_preamble' = TRUE
             /\ UNCHANGED <<sections, subsecs>>

\* One iteration of `for item in classified_items`.
build_item(item) ==
    LET itype == item.type
        ivalue == item.value
    IN  /\ consumed' = Append(consumed, item)
        /\ IF goes_to_exercises(itype)
             THEN exercise_branch(ivalue) /\ bpc' = bpc
           ELSE IF itype = "HEADING"
             THEN IF Split(ivalue) = <<>>
                    THEN /\ bpc' = "raised"          \* IndexError from split()[0]
                         /\ UNCHANGED <<sections, subsecs, curr_sec, curr_subsec,
                                        in_exercises, exercises, preamble, has_preamble>>
                  ELSE /\ bpc' = bpc
                       /\ IF level(id_tag(ivalue)) = 1
                            THEN open_section(id_tag(ivalue), ivalue)
                          ELSE IF level(id_tag(ivalue)) = 2
                            THEN open_subsection(id_tag(ivalue), ivalue)
                          ELSE UNCHANGED <<sections, subsecs, curr_sec, curr_subsec,
                                           in_exercises, exercises, preamble, has_preamble>>
           ELSE /\ place_content(ivalue)
                /\ bpc' = bpc
                /\ UNCHANGED <<curr_sec, curr_subsec, in_exercises, exercises>>

\* The state build_hierarchy starts its loop in.
BuilderStart ==
    /\ sections = <<>>
    /\ subsecs = <<>>
    /\ curr_sec = 0
    /\ curr_subsec = 0
    /\ in_exercises = FALSE
    /\ exercises = <<>>
    /\ preamble = <<>>
    /\ has_preamble = FALSE
    /\ consumed = <<>>

\* The tree build_hierarchy returns: root with the Subsection dicts in place.
root ==
    [chapter_title |-> "SYSTEMS OF PARTICLES AND ROTATIONAL MOTION",
     sections |-> [s \in 1..Len(sections) |->
                     [id |-> sections[s].id, title |-> sections[s].title,
                      content |-> sections[s].content,
                      subsections |-> [k \in 1..Len(sections[s].subsections) |->
                                          subsecs[sections[s].subsections[k]]]]],
     exercises |-> exercises,
     preamble |-> preamble,
     has_preamble |-> has_preamble]

\* ---- build_hierarchy on an arbitrary classified stream
BuildNext ==
    /\ bpc = "loop"
    /\ cpc = "idle"
    /\ Len(consumed) < MaxItems
    /\ \E item \in ItemSet : build_item(item)
    /\ UNCHANGED rest_of_build

BuildReturn ==
    /\ bpc = "loop"
    /\ cpc = "idle"
    /\ bpc' = "done"
    /\ UNCHANGED <<sections, subsecs, curr_sec, curr_subsec, in_exercises, exercises,
                   preamble, has_preamble, consumed>>
    /\ UNCHANGED rest_of_build

\* classify_and_clean has not been called.
ClassifierIdle ==
    /\ doc = <<>>
    /\ page_num = 0
    /\ ordered_blocks = <<>>
    /\ block_i = 0
    /\ all_items = <<>>
    /\ fig_counter = 0
    /\ images = {}
    /\ item_src = <<>>
    /\ cpc = "idle"

\* The column extractor and the figure extractor have not been constructed.
MergeIdle ==
    /\ m_blocks = <<>>
    /\ m_prev = <<>>
    /\ m_passes = 0
    /\ m_log = <<>>
    /\ mpc = "idle"
FigIdle ==
    /\ fig_lines = <<>>
    /\ fig_saved = <<>>
    /\ fig_files = {}
    /\ total_figures = 0
    /\ fpc = "idle"

\* run_pdf_pipeline has not been called.
RunIdle ==
    /\ pdf_openable = FALSE
    /\ run_id = ""
    /\ fs_dirs = {}
    /\ structure_files = {}
    /\ collection = {}
    /\ runs = 0
    /\ rpc = "idle"

\* classify_blocks.classify_and_clean has not been called.
KIdle ==
    /\ k_out = <<>>
    /\ k_pages = 0
    /\ kpc = "idle"

\* NCERTStructureBuilder.__init__
NcertNew ==
    [chapter_number |-> 6, chapter_title |-> <<>>, sections |-> <<>>, summary |-> <<>>,
     points_to_ponder |-> <<>>, exercises |-> <<>>,
     current_section |-> FALSE,         \* None, or the last Section of sections
     current_subsection |-> "none",     \* None | "attached": last Subsection of
                                        \* the last Section | "orphan": in no list
     orphan |-> <<>>,                   \* the content of the orphan Subsection
     in_summary |-> FALSE, in_points |-> FALSE, in_exercises |-> FALSE,
     started_real_content |-> FALSE]
NIdle ==
    /\ ncert = NcertNew
    /\ n_seen = <<>>
    /\ npc = "idle"

\* EnhancedStructureBuilder.__init__
EnhNew ==
    [chapter_number |-> <<>>, chapter_title |-> <<>>, sections |-> <<>>,
     current_section |-> FALSE,         \* None, or the last Section of sections
     current_subsection |-> FALSE]      \* None, or the last Subsection of it
EIdle ==
    /\ enh = EnhNew
    /\ e_seen = <<>>
    /\ epc = "idle"

\* extract_page_blocks has not been called.
XIdle ==
    /\ x_raw = <<>>
    /\ x_i = 0
    /\ clean_blocks = <<>>
    /\ xpc = "idle"
\* get_smart_diagram_areas is not being stepped through.
AIdle ==
    /\ a_paths = <<>>
    /\ a_k = 0
    /\ a_bboxes = <<>>
    /\ apc = "idle"
\* retrieve has not been called.
QIdle ==
    /\ q_filter = [kind |-> "none", ids |-> <<>>]
    /\ q_top_k = 0
    /\ q_points = {}
    /\ q_calls = <<>>
    /\ q_result = <<>>
    /\ qpc = "idle"
\* ingest_data has not been called.
GIdle ==
    /\ g_in = [loadable |-> FALSE, n_items |-> 0, client_given |-> FALSE,
               init_ok |-> FALSE, conn_ok |-> FALSE, has_callback |-> FALSE]
    /\ g_idx = 0
    /\ g_docs = 0
    /\ g_batch = 0
    /\ g_progress = <<>>
    /\ g_col = "absent"
    /\ g_upserted = 0
    /\ g_reported = FALSE
    /\ gpc = "idle"
LastIdle == XIdle /\ AIdle /\ QIdle /\ GIdle
EarlierIdle ==
    /\ BuilderStart /\ bpc = "idle" /\ ClassifierIdle /\ MergeIdle /\ FigIdle
    /\ RunIdle /\ KIdle /\ NIdle /\ EIdle
LaterIdle == RunIdle /\ KIdle /\ NIdle /\ EIdle /\ LastIdle

InitBuild == BuilderStart /\ bpc = "loop" /\ ClassifierIdle /\ MergeIdle /\ FigIdle /\ LaterIdle
NextBuild == BuildNext \/ BuildReturn
SpecBuild == InitBuild /\ [][NextBuild]_vars

\* ---- page geometry and input lines shared by the components
PageWidth == 600
SeqsUpTo(S, n) == UNION {[1..k -> S] : k \in 0..n}

\* the caption lines extract_figures reads: a prefix, chapter "." figure and
\* an optional sub-letter in parentheses
Caption(prefix, N, M, sub) ==
    prefix \o N \o <<".">> \o M
           \o (IF sub = <<>> THEN <<>> ELSE <<"(">> \o sub \o <<")">>)
Prefixes == {<<"F","i","g","."," ">>, <<"s","e","e"," ","f","i","g",".">>}
Chapters == {<<"6">>}
Figs     == {<<"7">>, <<"1","0">>}
Subs     == {<<>>, <<"a">>, <<"B">>}
L_figure == <<"F","i","g","u","r","e"," ","6",".","7">>
L_spaced == <<"F","i","g","."," ","6",".","7"," ","(","a",")">>
FigLines == {Caption(p, N, M, sub) : p \in Prefixes, N \in Chapters, M \in Figs, sub \in Subs}
              \cup {L_figure, L_spaced}

\* ------------------------------------------------------------------ config.RULES
\* The index after the longest run of digits (of blanks) of s that starts at p.
RECURSIVE DigitsEnd(_, _)
DigitsEnd(s, p) == IF p <= Len(s) /\ s[p] \in Digits THEN DigitsEnd(s, p + 1) ELSE p
RECURSIVE SpaceEnd(_, _)
SpaceEnd(s, p) == IF p <= Len(s) /\ IsSpace(s[p]) THEN SpaceEnd(s, p + 1) ELSE p

\* s has the characters of lit at p.
At(s, p, lit) == p + Len(lit) - 1 <= Len(s) /\ SubSeq(s, p, p + Len(lit) - 1) = lit

\* re.match(r'^\d+\.\d+(?:\.\d+)?\s+[A-Z]', text)
heading_rest(text, p) ==
    /\ SpaceEnd(text, p) > p
    /\ SpaceEnd(text, p) <= Len(text)
    /\ text[SpaceEnd(text, p)] \in UpperLetters
heading_match(text) ==
    LET a == DigitsEnd(text, 1)
        b == DigitsEnd(text, a + 1)
        c == DigitsEnd(text, b + 1)
    IN  /\ a > 1
        /\ At(text, a, <<".">>)
        /\ b > a + 1
        /\ \/ (At(text, b, <<".">>) /\ c > b + 1 /\ heading_rest(text, c))
           \/ heading_rest(text, b)

\* re.match(r'(?:Fig\.|Figure)\s*(\d+\.\d+)', text, re.I)
figure_match(text) ==
    LET low == Lower(text)
        after(p) == LET q == SpaceEnd(low, p)
                        a == DigitsEnd(low, q)
                        b == DigitsEnd(low, a + 1)
                    IN  a > q /\ At(low, a, <<".">>) /\ b > a + 1
    IN  \/ (At(low, 1, <<"f","i","g",".">>) /\ after(5))
        \/ (At(low, 1, <<"f","i","g","u","r","e">>) /\ after(7))

\* COLUMN_GAP_THRESHOLD = 0.5, in tenths
ColumnGapTenths == 5

\* ------------------------------------------------------------------ fitz.Rect
Min(a, b) == IF a <= b THEN a ELSE b
Max(a, b) == IF a >= b THEN a ELSE b
Rect(a, b, c, d) == [x0 |-> a, y0 |-> b, x1 |-> c, y1 |-> d]
rect_width(r) == r.x1 - r.x0
rect_height(r) == r.y1 - r.y0
rect_is_empty(r) == r.x0 >= r.x1 \/ r.y0 >= r.y1
\* r + (a, b, c, d)
rect_add(r, a, b, c, d) == Rect(r.x0 + a, r.y0 + b, r.x1 + c, r.y1 + d)
\* r1 | r2, both non-empty
rect_union(r1, r2) == Rect(Min(r1.x0, r2.x0), Min(r1.y0, r2.y0),
                           Max(r1.x1, r2.x1), Max(r1.y1, r2.y1))
\* r1.intersects(r2): the intersection is not empty
intersects(r1, r2) ==
    /\ ~rect_is_empty(r1)
    /\ ~rect_is_empty(r2)
    /\ Max(r1.x0, r2.x0) < Min(r1.x1, r2.x1)
    /\ Max(r1.y0, r2.y0) < Min(r1.y1, r2.y1)

\* ------------------------------------------------------------------ get_smart_diagram_areas
MinDrawingSize == 5
MergeDistance == 50

\* bbox + (-50, -50, 50, 50)
expanded(bbox) == rect_add(bbox, -MergeDistance, -MergeDistance, MergeDistance, MergeDistance)
\* rect.width < 5 or rect.height < 5
tiny_artifact(rect) == rect_width(rect) < MinDrawingSize \/ rect_height(rect) < MinDrawingSize

\* the merged area that replaces diagram_bboxes[i] (line 23)
merged_forgets_area(bbox, rect) == rect
merged_area(bbox, rect) == rect_union(bbox, rect)

\* one iteration of `for p in paths` (lines 16-27)
add_drawing(rect, diagram_bboxes) ==
    LET hits == {n \in 1..Len(diagram_bboxes) : intersects(rect, expanded(diagram_bboxes[n]))}
    IN  IF tiny_artifact(rect) THEN diagram_bboxes
        ELSE IF hits # {}
          THEN LET n == CHOOSE n \in hits : \A m \in hits : n <= m
               IN  [diagram_bboxes EXCEPT ![n] = merged_area(@, rect)]
        ELSE Append(diagram_bboxes, rect)

RECURSIVE smart_areas(_, _, _)
smart_areas(paths, k, diagram_bboxes) ==
    IF k > Len(paths) THEN diagram_bboxes
    ELSE smart_areas(paths, k + 1, add_drawing(paths[k], diagram_bboxes))
get_smart_diagram_areas(paths) == smart_areas(paths, 1, <<>>)

\* ------------------------------------------------------------------ classify_and_clean
\* " ".join(span texts)
RECURSIVE JoinSp(_)
JoinSp(spans) ==
    IF spans = <<>> THEN <<>>
    ELSE IF Len(spans) = 1 THEN spans[1]
    ELSE spans[1] \o <<" ">> \o JoinSp(Tail(spans))

\* text = " ".join(...).strip()
block_text(b) == Strip(JoinSp(b.spans))

Reprint == <<"R","e","p","r","i","n","t">>

\* list.sort(key = bbox[1]): stable, ascending y0
RECURSIVE InsertByY(_, _)
InsertByY(b, sorted) ==
    IF sorted = <<>> THEN <<b>>
    ELSE IF Head(sorted).bbox.y0 >= b.bbox.y0 THEN <<b>> \o sorted
    ELSE <<Head(sorted)>> \o InsertByY(b, Tail(sorted))
RECURSIVE SortByY(_)
sort_dropped(col) == col
SortByY(col) == IF col = <<>> THEN <<>> ELSE InsertByY(Head(col), SortByY(Tail(col)))

\* b["bbox"][0] < split_x, with split_x = page_width * COLUMN_GAP_THRESHOLD
single_column(x0, page_width) == x0 < page_width
in_left_column(x0, page_width) == x0 * 10 < page_width * ColumnGapTenths

\* decimal digits of a number, as str() gives them
DigitSeq == <<"0", "1", "2", "3", "4", "5", "6", "7", "8", "9">>
RECURSIVE DecStr(_)
DecStr(n) == IF n < 10 THEN <<DigitSeq[n + 1]>>
             ELSE DecStr(n \div 10) \o <<DigitSeq[(n % 10) + 1]>>

\* os.path.join(config.IMAGE_DIR, f"page_{page_num+1}_fig_{fig_counter}.png")
IMAGE_DIR == <<"IMAGE_DIR">>
img_path(pn, fc) ==
    IMAGE_DIR \o <<"/">> \o <<"p","a","g","e","_">> \o DecStr(pn + 1)
              \o <<"_","f","i","g","_">> \o DecStr(fc) \o <<".","p","n","g">>

\* the marker dict of one diagram area
diagram_marker(area, pn, fc) ==
    [kind |-> "DIAGRAM", bbox |-> area, spans |-> <<>>,
     value |-> <<"[","I","M","A","G","E",":"," ">> \o img_path(pn, fc) \o <<"]">>]

\* ordered_blocks of one page (lines 34-91)
order_page(page, pn, fc) ==
    LET diagram_areas == get_smart_diagram_areas(page.drawings)
        kept == SelectSeq(page.blocks, LAMBDA b :
                    ~\E a \in 1..Len(diagram_areas) : intersects(b.bbox, diagram_areas[a]))
        is_left(b) == in_left_column(b.bbox.x0, page.width)
        left_col == SortByY(SelectSeq(kept, is_left))
        right_col == SortByY(SelectSeq(kept, LAMBDA b : ~is_left(b)))
        markers == [k \in 1..Len(diagram_areas) |->
                       diagram_marker(diagram_areas[k], pn, fc + k)]
    IN  SortByY(left_col \o SelectSeq(markers, is_left))
          \o SortByY(right_col \o SelectSeq(markers, LAMBDA b : ~is_left(b)))

\* The top of the page loop up to the while loop: the page's ordered_blocks are
\* built and every diagram area is rendered and saved.
PageStart ==
    /\ cpc = "page"
    /\ page_num < Len(doc)
    /\ LET page == doc[page_num + 1]
           n_areas == Len(get_smart_diagram_areas(page.drawings))
       IN  /\ ordered_blocks' = order_page(page, page_num, fig_counter)
           /\ fig_counter' = fig_counter + n_areas
           /\ images' = images \cup {img_path(page_num, fig_counter + k) : k \in 1..n_areas}
           /\ block_i' = 0
           /\ page_num' = page_num + 1
           /\ cpc' = IF ordered_blocks' = <<>> THEN "page" ELSE "items"
    /\ UNCHANGED <<doc, all_items, item_src>>
    /\ UNCHANGED bvars
    /\ UNCHANGED rest_of_pipe

\* page.get_pixmap or pix.save raises for the k-th area of the page: nothing
\* catches it, classify_and_clean ends with the exception.
PageStartRaises ==
    /\ cpc = "page"
    /\ page_num < Len(doc)
    /\ LET page == doc[page_num + 1]
           n_areas == Len(get_smart_diagram_areas(page.drawings))
       IN  \E k \in 1..n_areas :
              /\ images' = images \cup {img_path(page_num, fig_counter + j) : j \in 1..(k - 1)}
              /\ fig_counter' = fig_counter + k
    /\ cpc' = "raised"
    /\ UNCHANGED <<doc, page_num, ordered_blocks, block_i, all_items, item_src>>
    /\ UNCHANGED bvars
    /\ UNCHANGED rest_of_pipe

\* the type given to a text block (lines 105-108)
classify_text(text) == IF heading_match(text) THEN "HEADING" ELSE "CONTENT"

\* the look-ahead consumed the caption: `i += 1` inside the caption branch
\* (line 121), before the loop's own `i += 1`
after_caption_stays(i) == i
after_caption(i) == i + 1

\* One iteration of `while block_i < len(ordered_blocks)`.
PageItem ==
    /\ cpc = "items"
    /\ block_i < Len(ordered_blocks)
    /\ LET item == ordered_blocks[block_i + 1]
           text == block_text(item)
           src(b) == [page |-> page_num, bbox |-> b.bbox]
           has_caption ==
               /\ block_i + 1 < Len(ordered_blocks)
               /\ ordered_blocks[block_i + 2].kind = "text"
               /\ figure_match(block_text(ordered_blocks[block_i + 2]))
       IN  IF item.kind = "text"
             THEN /\ block_i' = block_i + 1
                  /\ IF text = <<>> \/ Contains(text, Reprint)
                       THEN UNCHANGED <<all_items, item_src>>
                       ELSE /\ all_items' = Append(all_items, Item(classify_text(text), text))
                            /\ item_src' = Append(item_src, src(item))
           ELSE IF item.kind = "DIAGRAM"
             THEN IF has_caption
                    THEN /\ all_items' = all_items \o
                               <<Item("CONTENT", item.value),
                                 Item("CONTENT", block_text(ordered_blocks[block_i + 2]))>>
                         /\ item_src' = item_src \o <<src(item), src(ordered_blocks[block_i + 2])>>
                         /\ block_i' = after_caption(block_i) + 1
                    ELSE /\ all_items' = Append(all_items, Item("CONTENT", item.value))
                         /\ item_src' = Append(item_src, src(item))
                         /\ block_i' = block_i + 1
           ELSE /\ block_i' = block_i + 1
                /\ UNCHANGED <<all_items, item_src>>
    /\ cpc' = IF block_i' < Len(ordered_blocks) THEN "items" ELSE "page"
    /\ UNCHANGED <<doc, page_num, ordered_blocks, fig_counter, images>>
    /\ UNCHANGED bvars
    /\ UNCHANGED rest_of_pipe

\* doc.close(); return all_items; then build_hierarchy(raw_data) starts
\* (step4_to_json lines 59-60).
DocClose ==
    /\ cpc = "page"
    /\ page_num = Len(doc)
    /\ cpc' = "closed"
    /\ bpc = "idle"
    /\ bpc' = "loop"
    /\ UNCHANGED <<doc, page_num, ordered_blocks, block_i, all_items, fig_counter, images, item_src>>
    /\ UNCHANGED <<sections, subsecs, curr_sec, curr_subsec, in_exercises, exercises,
                   preamble, has_preamble, consumed>>
    /\ UNCHANGED rest_of_pipe

\* build_hierarchy's loop over the stream classify_and_clean returned
BuildNextPipe ==
    /\ cpc = "closed"
    /\ bpc = "loop"
    /\ Len(consumed) < Len(all_items)
    /\ build_item(all_items[Len(consumed) + 1])
    /\ UNCHANGED cvars
    /\ UNCHANGED rest_of_pipe

BuildReturnPipe ==
    /\ cpc = "closed"
    /\ bpc = "loop"
    /\ Len(consumed) = Len(all_items)
    /\ bpc' = "done"
    /\ UNCHANGED <<sections, subsecs, curr_sec, curr_subsec, in_exercises, exercises,
                   preamble, has_preamble, consumed>>
    /\ UNCHANGED cvars
    /\ UNCHANGED rest_of_pipe

\* ---- the pages a document is drawn from
T_a       == <<"(", "a", ")">>
T_blank   == <<" ", " ", " ">>
T_ab      == <<"a", "b">>
T_fig     == <<"F","i","g","."," ","6",".","7">>
PageTexts == {T_61, T_body, T_62, T_a, T_blank, <<>>, T_ab, T_fig, EXERCISES}
BlockBoxes == {Rect(50, 100, 250, 120), Rect(50, 200, 250, 220),
               Rect(320, 100, 520, 120), Rect(320, 200, 520, 220)}
TextBlock(t, box) == [kind |-> "text", bbox |-> box, spans |-> <<t>>, value |-> <<>>]
PageBlocks == {TextBlock(t, box) : t \in PageTexts, box \in BlockBoxes}
D_left  == Rect(60, 130, 200, 180)
D_right == Rect(300, 90, 400, 150)
DrawingLists == {<<>>, <<D_left>>, <<D_left, D_right>>}
\* the blocks of a page lie at different places
BlockLists == {b \in SeqsUpTo(PageBlocks, MaxBlocks) :
                  \A m, n \in 1..Len(b) : m # n => b[m].bbox # b[n].bbox}
Pages == {[width |-> PageWidth, blocks |-> b, drawings |-> d] :
             b \in BlockLists, d \in DrawingLists}

InitPipe ==
    /\ BuilderStart
    /\ bpc = "idle"
    /\ doc \in UNION {[1..n -> Pages] : n \in 1..MaxPages}
    /\ page_num = 0
    /\ ordered_blocks = <<>>
    /\ block_i = 0
    /\ all_items = <<>>
    /\ fig_counter = 0
    /\ images = {}
    /\ item_src = <<>>
    /\ cpc = "page"
    /\ MergeIdle /\ FigIdle /\ LaterIdle
NextPipe == PageStart \/ PageStartRaises \/ PageItem \/ DocClose
              \/ BuildNextPipe \/ BuildReturnPipe
SpecPipe == InitPipe /\ [][NextPipe]_vars

\* ------------------------------------------------------------------ ProductionColumnExtractor
\* The characters of r'[=+\-×*/^∑∆τ∫√()]'; the six that are not ASCII are
\* written by name.
MathChars == {"=", "+", "-", "*", "/", "^", "(", ")",
              "TIMES", "SUM", "DELTA", "TAU", "INTEGRAL", "SQRT"}
IsWordChar(c) == IsAlnum(c) \/ c = "_"

\* re.search(r'\b[a-zA-Z]\s*=\s*', text)
variable_like(text) ==
    \E p \in 1..Len(text) :
        /\ text[p] \in Letters
        /\ (p = 1 \/ ~IsWordChar(text[p - 1]))
        /\ At(text, SpaceEnd(text, p + 1), <<"=">>)

is_math_block(raw) ==
    LET text == Strip(raw)
        math_count == Cardinality({p \in 1..Len(text) : text[p] \in MathChars})
    IN  /\ text # <<>>
        /\ \/ math_count * 4 > Len(text)                 \* math_count / len > 0.25
           \/ variable_like(text)
           \/ \E p \in 1..Len(text) : text[p] \in {"SUM", "INTEGRAL"}

Abs(n) == IF n < 0 THEN -n ELSE n
YThreshold == 12

\* the j at which the inner while loop of merge_vertical_math stops
RECURSIVE chain_end(_, _)
chain_end(blocks, j) ==
    IF /\ j <= Len(blocks)
       /\ blocks[j].type = "text"
       /\ is_math_block(blocks[j].content)
       /\ Abs(blocks[j].y0 - blocks[j - 1].y0) < YThreshold
      THEN chain_end(blocks, j + 1)
      ELSE j

\* contents of blocks[from..to], joined by " "
RECURSIVE combined_reversed(_, _, _)
combined_reversed(blocks, from, to) ==
    IF from = to THEN blocks[from].content
    ELSE combined_reversed(blocks, from + 1, to) \o <<" ">> \o blocks[from].content
RECURSIVE combined(_, _, _)
combined(blocks, from, to) ==
    IF from = to THEN blocks[from].content
    ELSE blocks[from].content \o <<" ">> \o combined(blocks, from + 1, to)

RECURSIVE vertical_math_from(_, _)
vertical_math_from(blocks, k) ==
    IF k > Len(blocks) THEN <<>>
    ELSE LET current == blocks[k]
             j == chain_end(blocks, k + 1)
         IN  IF current.type = "text" /\ is_math_block(current.content)
               THEN << [type |-> "text", content |-> combined(blocks, k, j - 1),
                        x0 |-> current.x0, y0 |-> current.y0, x1 |-> current.x1,
                        centroid_x |-> current.centroid_x] >>
                      \o vertical_math_from(blocks, j)
               ELSE <<current>> \o vertical_math_from(blocks, k + 1)
merge_vertical_math(blocks) == vertical_math_from(blocks, 1)

\* list.sort(key = y0): stable, ascending
RECURSIVE InsertByY0(_, _)
InsertByY0(b, sorted) ==
    IF sorted = <<>> THEN <<b>>
    ELSE IF Head(sorted).y0 >= b.y0 THEN <<b>> \o sorted
    ELSE <<Head(sorted)>> \o InsertByY0(b, Tail(sorted))
RECURSIVE SortByY0(_)
SortByY0(col) == IF col = <<>> THEN <<>> ELSE InsertByY0(Head(col), SortByY0(Tail(col)))

\* order_by_columns: split at page_width / 2 by centroid_x, left then right
order_by_columns(blocks, page_width) ==
    IF blocks = <<>> THEN <<>>
    ELSE SortByY0(SelectSeq(blocks, LAMBDA b : 2 * b.centroid_x < page_width))
           \o SortByY0(SelectSeq(blocks, LAMBDA b : ~(2 * b.centroid_x < page_width)))

\* ordered = self.order_by_columns(page_blocks, page)
OrderByColumns ==
    /\ mpc = "extracted"
    /\ m_blocks' = order_by_columns(m_blocks, PageWidth)
    /\ mpc' = "ordered"
    /\ UNCHANGED <<m_prev, m_passes, m_log>>
    /\ UNCHANGED rest_of_merge

\* merge_vertical_math applied to the ordered sequence, or to its own output
MergeVerticalMath ==
    /\ mpc \in {"ordered", "merged"}
    /\ m_passes < MaxPasses
    /\ m_prev' = m_blocks
    /\ m_blocks' = merge_vertical_math(m_blocks)
    /\ m_passes' = m_passes + 1
    /\ m_log' = Append(m_log, "merge_vertical_math")
    /\ mpc' = "merged"
    /\ UNCHANGED rest_of_merge

\* ---- the blocks extract_page_blocks hands to order_by_columns
M_eq   == <<"a", "=", "b">>
M_plus == <<"+", "c">>
M_word == <<"m", "a", "s", "s">>
MathTexts == {M_eq, M_plus, M_word}
MathBlock(t, x, y) ==
    [type |-> "text", content |-> t, x0 |-> x, y0 |-> y, x1 |-> x + 200,
     centroid_x |-> (x + x + 200) \div 2]
MathBlocks == {MathBlock(t, x, y) : t \in MathTexts, x \in {50, 320}, y \in {199, 200, 211}}

InitMerge ==
    /\ m_blocks \in SeqsUpTo(MathBlocks, MaxMathBlocks)
    /\ m_prev = <<>>
    /\ m_passes = 0
    /\ m_log = <<>>
    /\ mpc = "extracted"
    /\ BuilderStart /\ bpc = "idle" /\ ClassifierIdle /\ FigIdle /\ LaterIdle
NextMerge == OrderByColumns \/ MergeVerticalMath
SpecMerge == InitMerge /\ [][NextMerge]_vars

\* ------------------------------------------------------------------ NCERTFigureExtractor
NoMatch == [found |-> FALSE, chapter |-> <<>>, fig |-> <<>>, sub |-> <<>>]

\* fig_pattern, matched at position p of the line:
\* r"Fig\.\s*(\d+)\.(\d+)(\([a-z]\))?" with re.IGNORECASE
fig_match_at(line, p) ==
    LET low == Lower(line)
        q == SpaceEnd(line, p + 4)
        a == DigitsEnd(line, q)
        b == DigitsEnd(line, a + 1)
        has_sub == /\ b + 2 <= Len(line)
                   /\ line[b] = "("
                   /\ low[b + 1] \in LowerLetters
                   /\ line[b + 2] = ")"
    IN  IF At(low, p, <<"f", "i", "g", ".">>) /\ a > q /\ At(line, a, <<".">>) /\ b > a + 1
          THEN [found |-> TRUE, chapter |-> SubSeq(line, q, a - 1),
                fig |-> SubSeq(line, a + 1, b - 1),
                sub |-> IF has_sub THEN SubSeq(line, b, b + 2) ELSE <<>>]
          ELSE NoMatch

\* self.fig_pattern.search(full_line): the leftmost match
fig_search(line) ==
    LET starts == {p \in 1..Len(line) : fig_match_at(line, p).found}
    IN  IF starts = {} THEN NoMatch
        ELSE fig_match_at(line, CHOOSE p \in starts : \A r \in starts : p <= r)

\* str.replace(c, "")
Without(s, c) == SelectSeq(s, LAMBDA ch : ch # c)

build_filename_keeps_parens(match) ==
    IF match.sub # <<>>
      THEN <<"f","i","g","_">> \o match.chapter \o <<"_">> \o match.fig \o <<"_">>
             \o match.sub \o <<".","p","n","g">>
      ELSE <<"f","i","g","_">> \o match.chapter \o <<"_">> \o match.fig \o <<".","p","n","g">>
build_filename(match) ==
    IF match.sub # <<>>
      THEN <<"f","i","g","_">> \o match.chapter \o <<"_">> \o match.fig \o <<"_">>
             \o Without(Without(match.sub, "("), ")") \o <<".","p","n","g">>
      ELSE <<"f","i","g","_">> \o match.chapter \o <<"_">> \o match.fig \o <<".","p","n","g">>

\* One line of a text block in extract_figures (lines 65-115). The first
\* get_pixmap/save is outside any try; the second is inside one.
FigLine ==
    /\ fpc = "lines"
    /\ Len(fig_lines) < MaxLines
    /\ \E raw \in FigLines, first_ok, second_ok \in BOOLEAN :
          LET full_line == Strip(raw)
              match == fig_search(full_line)
              filename == build_filename(match)
          IN  /\ fig_lines' = Append(fig_lines, raw)
              /\ IF ~match.found
                   THEN UNCHANGED <<fig_saved, fig_files, total_figures, fpc>>
                 ELSE IF ~first_ok
                   THEN /\ fpc' = "raised"
                        /\ UNCHANGED <<fig_saved, fig_files, total_figures>>
                 ELSE /\ fig_files' = fig_files \cup {filename}
                      /\ fpc' = fpc
                      /\ IF second_ok
                           THEN /\ fig_saved' = fig_saved \o
                                      << [line |-> raw, filename |-> filename],
                                         [line |-> raw, filename |-> build_filename(match)] >>
                                /\ total_figures' = total_figures + 1
                           ELSE /\ fig_saved' = Append(fig_saved,
                                      [line |-> raw, filename |-> filename])
                                /\ UNCHANGED total_figures
    /\ UNCHANGED rest_of_fig

\* the loops end: print(f"Total Figures Extracted: ...")
FigDone ==
    /\ fpc = "lines"
    /\ fpc' = "done"
    /\ UNCHANGED <<fig_lines, fig_saved, fig_files, total_figures>>
    /\ UNCHANGED rest_of_fig

InitFig ==
    /\ fig_lines = <<>>
    /\ fig_saved = <<>>
    /\ fig_files = {}
    /\ total_figures = 0
    /\ fpc = "lines"
    /\ BuilderStart /\ bpc = "idle" /\ ClassifierIdle /\ MergeIdle /\ LaterIdle
NextFig == FigLine \/ FigDone
SpecFig == InitFig /\ [][NextFig]_vars

\* ------------------------------------------------------------------ FinalCleanExtractor.is_noise
ShortFragment == 4
SidebarWidth == 100
TocWords == 6

\* re.match(r'^\(?[a-zA-Z]\)?$', text)
single_letter(text) ==
    LET a == IF At(text, 1, <<"(">>) THEN 2 ELSE 1
        b == IF At(text, a + 1, <<")">>) THEN a + 2 ELSE a + 1
    IN  /\ a <= Len(text)
        /\ text[a] \in Letters
        /\ (b = Len(text) + 1 \/ (b = Len(text) /\ text[b] = "\n"))

\* re.findall(r'6\.\d+', text) is not empty
has_section_number(text) ==
    \E p \in 1..Len(text) : At(text, p, <<"6", ".">>) /\ DigitsEnd(text, p + 2) > p + 2

is_noise(raw, width) ==
    LET text == Strip(raw)
        symbols == Cardinality({p \in 1..Len(text) : ~IsAlnum(text[p])})
    IN  \/ text = <<>>
        \/ Len(text) < ShortFragment
        \/ single_letter(text)
        \/ symbols * 10 > 6 * Len(text)          \* symbol_ratio > 0.6
        \/ width < SidebarWidth
        \/ (has_section_number(text) /\ Len(Split(text)) < TocWords)

\* ------------------------------------------------------------------ pipeline.run_pdf_pipeline
MaxRuns == 3
RunIds == {"1f0e", "a7c2", "b39d", "c4d8"}

\* the keyword arguments of the call in pipeline.py line 32, and the parameters
\* of step3_classify_blocks.classify_and_clean (its def takes none)
CallKeywords == {"pdf_path", "image_output_dir"}
ClassifyParams == {}

\* images_dir of a run: os.path.join(output_dir, run_id, "images"), as path
\* components (pipeline.py lines 19-20)
images_dir(id) == <<"output_dir", id, "images">>
\* the directory classify_and_clean joins every image file name to (step3
\* line 67), whatever the caller passes
step3_image_dir == IMAGE_DIR

\* how the call classify_and_clean(pdf_path=..., image_output_dir=...) ends
classify_outcome_swallowed(openable) == "returned"
classify_outcome(openable) ==
    IF ~(CallKeywords \subseteq ClassifyParams) THEN "TypeError"
    ELSE IF ~openable THEN "FileError"      \* fitz.open raises
    ELSE "returned"

\* run_pdf_pipeline up to the call of classify_and_clean: a run id is drawn and
\* the run directory and its images directory are created.
RunStart ==
    /\ rpc \in {"idle", "raised", "complete"}
    /\ runs < MaxRuns
    /\ \E id \in RunIds, ok \in BOOLEAN :
          /\ run_id' = id
          /\ pdf_openable' = ok
          /\ fs_dirs' = fs_dirs \cup {id}
    /\ runs' = runs + 1
    /\ rpc' = "classify"
    /\ UNCHANGED <<structure_files, collection>>
    /\ UNCHANGED rest_of_run

\* the rest of run_pdf_pipeline: classify_and_clean, build_hierarchy,
\* save_structure, ingest_data; an exception of the call ends the run.
RunBody ==
    /\ rpc = "classify"
    /\ IF classify_outcome(pdf_openable) # "returned"
         THEN /\ rpc' = "raised"
              /\ UNCHANGED <<structure_files, collection>>
         ELSE /\ structure_files' = structure_files \cup {run_id}
              /\ collection' = collection \cup {run_id}
              /\ rpc' = "complete"
    /\ UNCHANGED <<pdf_openable, run_id, fs_dirs, runs>>
    /\ UNCHANGED rest_of_run

InitRun ==
    /\ RunIdle
    /\ BuilderStart /\ bpc = "idle" /\ ClassifierIdle /\ MergeIdle /\ FigIdle
    /\ KIdle /\ NIdle /\ EIdle /\ LastIdle
NextRun == RunStart \/ RunBody
SpecRun == InitRun /\ [][NextRun]_vars

\* ------------------------------------------------------------------ classify_blocks.classify_and_clean
MaxKPages == 2
MaxKBlocks == 2

\* RULES["EXERCISE_KEYWORDS"]
Problem == <<"P","r","o","b","l","e","m">>
Question == <<"Q","u","e","s","t","i","o","n">>
EXERCISE_KEYWORDS == <<EXERCISES, Problem, Question>>

\* is_inside_table(block_rect, table_rects)
is_inside_table(block_rect, table_rects) ==
    \E t \in 1..Len(table_rects) : intersects(block_rect, table_rects[t])

\* text.lower().startswith(("fig.", "figure"))
starts_as_figure(text) ==
    \/ At(Lower(text), 1, <<"f","i","g",".">>)
    \/ At(Lower(text), 1, <<"f","i","g","u","r","e">>)

\* re.search(r'[\(\[](\d+\.\d+)[\)\]]', text)
equation_search(text) ==
    \E p \in 1..Len(text) :
        LET a == DigitsEnd(text, p + 1)
            b == DigitsEnd(text, a + 1)
        IN  /\ text[p] \in {"(", "["}
            /\ a > p + 1
            /\ At(text, a, <<".">>)
            /\ b > a + 1
            /\ b <= Len(text)
            /\ text[b] \in {")", "]"}

\* any(k in text for k in config.RULES["EXERCISE_KEYWORDS"])
has_exercise_keyword(text) ==
    \E k \in 1..Len(EXERCISE_KEYWORDS) : Contains(text, EXERCISE_KEYWORDS[k])

\* the if/elif chain of lines 55-66
category(text) ==
    IF heading_match(text) THEN "HEADING"
    ELSE IF starts_as_figure(text) THEN "FIGURE"
    ELSE IF equation_search(text) THEN "EQUATION"
    ELSE IF has_exercise_keyword(text) THEN "EXERCISE"
    ELSE "PARAGRAPH"

\* the blocks of a page that pass lines 36-42, left column then right column,
\* each sorted by y0
k_ordered(page) ==
    LET kept == SelectSeq(page.blocks,
                    LAMBDA b : /\ Strip(b.text) # <<>>
                               /\ ~Contains(b.text, Reprint)
                               /\ ~is_inside_table(b.bbox, page.tables))
        left_col == SelectSeq(kept, LAMBDA b : in_left_column(b.bbox.x0, PageWidth))
        right_col == SelectSeq(kept, LAMBDA b : ~in_left_column(b.bbox.x0, PageWidth))
    IN  SortByY(left_col) \o SortByY(right_col)

\* ---- the pages the document is read from
K_figq  == T_fig \o <<" ">> \o T_problem
K_eqq   == T_problem \o <<" ", "(", "6", ".", "1", ")">>
K_headq == <<"6", ".", "1", " ">> \o T_problem
KTexts == {T_61, T_body, EXERCISES, K_figq, K_eqq, K_headq, Reprint, T_blank}
KBoxes == {Rect(50, 100, 250, 120), Rect(50, 200, 250, 220), Rect(320, 100, 520, 120)}
K_table == Rect(40, 190, 260, 300)
KBlocks == {[bbox |-> box, text |-> t] : box \in KBoxes, t \in KTexts}
KPages == {[blocks |-> b, tables |-> t] :
              b \in SeqsUpTo(KBlocks, MaxKBlocks), t \in {<<>>, <<K_table>>}}

\* one iteration of `for page in doc`: the page's blocks are filtered, ordered
\* and classified
KPage ==
    /\ kpc = "pages"
    /\ k_pages < MaxKPages
    /\ \E page \in KPages :
          LET ordered_now == k_ordered(page)
          IN  k_out' = k_out \o
                  [n \in 1..Len(ordered_now) |->
                      [type |-> category(Strip(ordered_now[n].text)),
                       text |-> Strip(ordered_now[n].text)]]
    /\ k_pages' = k_pages + 1
    /\ kpc' = kpc
    /\ UNCHANGED rest_of_classify

\* doc.close(); return all_classified_blocks
KClose ==
    /\ kpc = "pages"
    /\ kpc' = "closed"
    /\ UNCHANGED <<k_out, k_pages>>
    /\ UNCHANGED rest_of_classify

InitClassify ==
    /\ k_out = <<>>
    /\ k_pages = 0
    /\ kpc = "pages"
    /\ BuilderStart /\ bpc = "idle" /\ ClassifierIdle /\ MergeIdle /\ FigIdle
    /\ RunIdle /\ NIdle /\ EIdle /\ LastIdle
NextClassify == KPage \/ KClose
SpecClassify == InitClassify /\ [][NextClassify]_vars

\* ------------------------------------------------------------------ NCERTStructureBuilder
MaxNBlocks == 4

\* str.isupper(): a cased character exists and no cased character is lower-case
IsUpperStr(s) ==
    /\ \E p \in 1..Len(s) : s[p] \in UpperLetters
    /\ \A p \in 1..Len(s) : s[p] \notin LowerLetters

\* the index after the longest run of upper-case letters of s that starts at p
RECURSIVE UpperEnd(_, _)
UpperEnd(s, p) == IF p <= Len(s) /\ s[p] \in UpperLetters THEN UpperEnd(s, p + 1) ELSE p

\* re.match(r"^6\.1\s+[A-Z]{3,}", text.strip())
is_real_section_start(text) ==
    LET t == Strip(text)
        q == SpaceEnd(t, 4)
    IN  /\ At(t, 1, <<"6", ".", "1">>)
        /\ q > 4
        /\ UpperEnd(t, q) >= q + 3

\* re.match(r"^6\.\d+\s+[A-Z]", text.strip())
n_is_section(text) ==
    LET t == Strip(text)
        a == DigitsEnd(t, 3)
    IN  /\ At(t, 1, <<"6", ".">>)
        /\ a > 3
        /\ heading_rest(t, a)

\* re.match(r"^6\.\d+\.\d+\s+", text.strip())
n_is_subsection(text) ==
    LET t == Strip(text)
        a == DigitsEnd(t, 3)
        b == DigitsEnd(t, a + 1)
    IN  /\ At(t, 1, <<"6", ".">>)
        /\ a > 3
        /\ At(t, a, <<".">>)
        /\ b > a + 1
        /\ SpaceEnd(t, b) > b

SUMMARY == <<"S","U","M","M","A","R","Y">>
POINTS_TO_PONDER == <<"P","O","I","N","T","S"," ","T","O"," ","P","O","N","D","E","R">>
SYSTEMS_OF_PARTICLES ==
    <<"S","Y","S","T","E","M","S"," ","O","F"," ","P","A","R","T","I","C","L","E","S">>
is_summary(text) == Upper(Strip(text)) = SUMMARY
is_points(text) == Upper(Strip(text)) = POINTS_TO_PONDER
is_exercises(text) == Upper(Strip(text)) = EXERCISES

\* text[len(number):].strip(), number being text.split()[0]
title_after(text, number) == Strip(SubSeq(text, Len(number) + 1, Len(text)))

\* the loop body of build from the summary test on (lines 246-318)
n_body(self, text) ==
    IF is_summary(text)
      THEN [self EXCEPT !.in_summary = TRUE, !.in_points = FALSE, !.in_exercises = FALSE]
    ELSE IF is_points(text)
      THEN [self EXCEPT !.in_points = TRUE, !.in_summary = FALSE, !.in_exercises = FALSE]
    ELSE IF is_exercises(text)
      THEN [self EXCEPT !.in_exercises = TRUE, !.in_summary = FALSE, !.in_points = FALSE]
    ELSE IF self.in_summary
      THEN [self EXCEPT !.summary = Append(@, text)]
    ELSE IF self.in_points
      THEN [self EXCEPT !.points_to_ponder = Append(@, text)]
    ELSE IF self.in_exercises
      THEN [self EXCEPT !.exercises = Append(@, text)]
    ELSE IF n_is_section(text)
      THEN [self EXCEPT
              !.sections = Append(@, [section_number |-> Split(text)[1],
                                      section_title |-> title_after(text, Split(text)[1]),
                                      content |-> <<>>, subsections |-> <<>>]),
              !.current_section = TRUE,
              !.current_subsection = "none"]
    ELSE IF n_is_subsection(text)
      THEN LET sub == [subsection_number |-> Split(text)[1],
                       subsection_title |-> title_after(text, Split(text)[1]),
                       content |-> <<>>]
           IN  IF self.current_section
                 THEN [self EXCEPT
                         !.sections[Len(self.sections)].subsections = Append(@, sub),
                         !.current_subsection = "attached"]
                 ELSE [self EXCEPT !.current_subsection = "orphan", !.orphan = <<>>]
    ELSE IF self.current_subsection = "attached"
      THEN [self EXCEPT
              !.sections[Len(self.sections)].subsections[
                  Len(self.sections[Len(self.sections)].subsections)].content =
                      Append(@, text)]
    ELSE IF self.current_subsection = "orphan"
      THEN [self EXCEPT !.orphan = Append(@, text)]
    ELSE IF self.current_section
      THEN [self EXCEPT !.sections[Len(self.sections)].content = Append(@, text)]
    ELSE self

\* one iteration of `for block in blocks` (lines 213-318)
n_block(self, block) ==
    LET text == Strip(block.content)
    IN  IF block.type # "text" THEN self
        ELSE IF text = <<>> THEN self
        ELSE IF /\ self.chapter_title = <<>>
                /\ IsUpperStr(text)
                /\ Contains(text, SYSTEMS_OF_PARTICLES)
          THEN [self EXCEPT !.chapter_title = text]
        ELSE IF ~self.started_real_content /\ ~is_real_section_start(text)
          THEN self
        ELSE n_body([self EXCEPT !.started_real_content = TRUE], text)

\* ---- the blocks build is given
N_toc   == <<"6",".","1"," ","I","n","t","r","o","d","u","c","t","i","o","n">>
N_first == <<"6", ".", "1", " ">> \o SYSTEMS_OF_PARTICLES
NTexts == {T_61, T_62, T_611, T_body, N_toc, N_first, SYSTEMS_OF_PARTICLES,
           SUMMARY, EXERCISES, T_blank}
NBlocks == {[type |-> "text", content |-> t] : t \in NTexts}
              \cup {[type |-> "image", content |-> <<>>]}

NBuildBlock ==
    /\ npc = "build"
    /\ Len(n_seen) < MaxNBlocks
    /\ \E block \in NBlocks :
          /\ ncert' = n_block(ncert, block)
          /\ n_seen' = Append(n_seen, block)
    /\ npc' = npc
    /\ UNCHANGED rest_of_ncert

\* return self.chapter
NBuildReturn ==
    /\ npc = "build"
    /\ npc' = "done"
    /\ UNCHANGED <<ncert, n_seen>>
    /\ UNCHANGED rest_of_ncert

InitNcert ==
    /\ ncert = NcertNew
    /\ n_seen = <<>>
    /\ npc = "build"
    /\ BuilderStart /\ bpc = "idle" /\ ClassifierIdle /\ MergeIdle /\ FigIdle
    /\ RunIdle /\ KIdle /\ EIdle /\ LastIdle
NextNcert == NBuildBlock \/ NBuildReturn
SpecNcert == InitNcert /\ [][NextNcert]_vars

\* ------------------------------------------------------------------ EnhancedStructureBuilder
MaxEBlocks == 3
TitleMinLen == 15

CHAPTER == <<"C","H","A","P","T","E","R">>
MOTION == <<"M","O","T","I","O","N">>
SYSTEMS == <<"S","Y","S","T","E","M","S">>

\* str.replace(lit, ""): every occurrence of lit is removed, left to right
RECURSIVE RemoveAll(_, _)
RemoveAll(s, lit) ==
    IF s = <<>> THEN <<>>
    ELSE IF At(s, 1, lit) THEN RemoveAll(SubSeq(s, Len(lit) + 1, Len(s)), lit)
    ELSE <<Head(s)>> \o RemoveAll(Tail(s), lit)

\* re.match(r'^CHAPTER\s+[A-Z\d]+', text.strip(), re.I)
is_chapter_header(text) ==
    LET t == Upper(Strip(text))
        q == SpaceEnd(t, 8)
    IN  /\ At(t, 1, CHAPTER)
        /\ q > 8
        /\ q <= Len(t)
        /\ t[q] \in UpperLetters \cup Digits

\* text.isupper() and len(text) > 15 and "MOTION" in text or "SYSTEMS" in text:
\* `and` binds tighter than `or`
is_chapter_title(text) ==
    \/ (IsUpperStr(text) /\ Len(text) > TitleMinLen /\ Contains(text, MOTION))
    \/ Contains(text, SYSTEMS)

\* re.match(r'^\d+\.\d+\s+[A-Z]', text.strip())
e_is_section(text) ==
    LET t == Strip(text)
        a == DigitsEnd(t, 1)
        b == DigitsEnd(t, a + 1)
    IN  a > 1 /\ At(t, a, <<".">>) /\ b > a + 1 /\ heading_rest(t, b)

\* re.match(r'^\d+\.\d+\.\d+\s+', text.strip())
e_is_subsection(text) ==
    LET t == Strip(text)
        a == DigitsEnd(t, 1)
        b == DigitsEnd(t, a + 1)
        c == DigitsEnd(t, b + 1)
    IN  /\ a > 1 /\ At(t, a, <<".">>)
        /\ b > a + 1 /\ At(t, b, <<".">>)
        /\ c > b + 1 /\ SpaceEnd(t, c) > c

\* extract_section_info / extract_subsection_info on a text that matched:
\* the number is the first token, the title what follows the blanks after it
extract_info(text) ==
    LET t == Strip(text)
        num == Split(t)[1]
    IN  [num |-> num, title |-> SubSeq(t, SpaceEnd(t, Len(num) + 1), Len(t))]

\* add_to_structure(item) for an item that is not None
add_to_structure(self, item) ==
    IF self.current_subsection
      THEN [self EXCEPT
              !.sections[Len(self.sections)].subsections[
                  Len(self.sections[Len(self.sections)].subsections)].content =
                      Append(@, item)]
    ELSE IF self.current_section
      THEN [self EXCEPT !.sections[Len(self.sections)].content = Append(@, item)]
    ELSE self

\* process_content_block(block) followed by add_to_structure of its result
e_block(self, block) ==
    LET content == Strip(block.content)
        paragraph == [type |-> IF block.is_math THEN "formula" ELSE "paragraph",
                      content |-> content]
    IN  IF block.type = "page_break" THEN self
        ELSE IF block.type = "image"
          THEN add_to_structure(self, [type |-> "image", content |-> block.content])
        ELSE IF block.type # "text" THEN self
        ELSE IF content = <<>> THEN self
        ELSE IF is_chapter_header(content) /\ self.chapter_number = <<>>
          THEN [self EXCEPT !.chapter_number = Strip(RemoveAll(content, CHAPTER))]
        ELSE IF is_chapter_title(content) /\ self.chapter_title = <<>>
          THEN [self EXCEPT !.chapter_title = content]
        ELSE IF e_is_section(content)
          THEN [self EXCEPT
                  !.sections = Append(@, [section_number |-> extract_info(content).num,
                                          section_title |-> extract_info(content).title,
                                          content |-> <<>>, subsections |-> <<>>]),
                  !.current_section = TRUE,
                  !.current_subsection = FALSE]
        ELSE IF e_is_subsection(content) /\ self.current_section
          THEN [self EXCEPT
                  !.sections[Len(self.sections)].subsections =
                      Append(@, [subsection_number |-> extract_info(content).num,
                                 subsection_title |-> extract_info(content).title,
                                 content |-> <<>>]),
                  !.current_subsection = TRUE]
        ELSE add_to_structure(self, paragraph)

\* ---- the blocks build is given
E_motion  == <<"R","O","T","A","T","I","O","N","A","L"," ">> \o MOTION
E_mixed   == <<"M","a","n","y"," ">> \o SYSTEMS
E_chapter == CHAPTER \o <<" ","S","I","X">>
ETexts == {SYSTEMS_OF_PARTICLES, E_motion, E_mixed, MOTION, E_chapter,
           T_61, T_611, T_body, T_blank}
EBlocks == {[type |-> "text", content |-> t, is_math |-> FALSE] : t \in ETexts}
              \cup {[type |-> "image", content |-> <<"f","i","g">>, is_math |-> FALSE],
                    [type |-> "page_break", content |-> <<>>, is_math |-> FALSE]}

EBuildBlock ==
    /\ epc = "build"
    /\ Len(e_seen) < MaxEBlocks
    /\ \E block \in EBlocks :
          /\ enh' = e_block(enh, block)
          /\ e_seen' = Append(e_seen, block)
    /\ epc' = epc
    /\ UNCHANGED rest_of_enh

\* return self.chapter
EBuildReturn ==
    /\ epc = "build"
    /\ epc' = "done"
    /\ UNCHANGED <<enh, e_seen>>
    /\ UNCHANGED rest_of_enh

InitEnh ==
    /\ enh = EnhNew
    /\ e_seen = <<>>
    /\ epc = "build"
    /\ BuilderStart /\ bpc = "idle" /\ ClassifierIdle /\ MergeIdle /\ FigIdle
    /\ RunIdle /\ KIdle /\ NIdle /\ LastIdle
NextEnh == EBuildBlock \/ EBuildReturn
SpecEnh == InitEnh /\ [][NextEnh]_vars

\* ------------------------------------------------------------------ merge_equation_stacks, merge_headings
MaxPassBlocks == 3
ShortMathLen == 20
CenterTolerancePct == 15
EqYThreshold == 15

\* is_short_math_line(text)
is_short_math_line(text) == Len(Strip(text)) < ShortMathLen /\ is_math_block(text)

\* is_centered(block, page_width): abs(centroid_x - page_width / 2) < page_width * 0.15
is_centered(block, page_width) ==
    100 * Abs(2 * block.centroid_x - page_width) < 2 * CenterTolerancePct * page_width

stack_line(block, page_width) ==
    /\ block.type = "text"
    /\ is_short_math_line(block.content)
    /\ is_centered(block, page_width)

\* the j at which the inner while loop of merge_equation_stacks stops
RECURSIVE stack_end(_, _, _)
stack_end(blocks, j, page_width) ==
    IF /\ j <= Len(blocks)
       /\ stack_line(blocks[j], page_width)
       /\ Abs(blocks[j].y0 - blocks[j - 1].y0) < EqYThreshold
      THEN stack_end(blocks, j + 1, page_width)
      ELSE j

RECURSIVE equation_stacks_from(_, _, _)
equation_stacks_from(blocks, k, page_width) ==
    IF k > Len(blocks) THEN <<>>
    ELSE LET current == blocks[k]
             j == stack_end(blocks, k + 1, page_width)
         IN  IF stack_line(current, page_width)
               THEN << [type |-> "text", content |-> combined(blocks, k, j - 1),
                        x0 |-> current.x0, y0 |-> current.y0, x1 |-> current.x1,
                        centroid_x |-> current.centroid_x] >>
                      \o equation_stacks_from(blocks, j, page_width)
               ELSE <<current>> \o equation_stacks_from(blocks, k + 1, page_width)
merge_equation_stacks(blocks, page_width) == equation_stacks_from(blocks, 1, page_width)

\* re.match(r'^\d+\.\d+$', content.strip())
bare_id_at_start(content) ==
    LET t == Strip(content)
        a == DigitsEnd(t, 1)
        b == DigitsEnd(t, a + 1)
    IN  a > 1 /\ At(t, a, <<".">>) /\ b > a + 1
bare_id(content) ==
    LET t == Strip(content)
        a == DigitsEnd(t, 1)
        b == DigitsEnd(t, a + 1)
    IN  a > 1 /\ At(t, a, <<".">>) /\ b > a + 1 /\ b = Len(t) + 1

RECURSIVE headings_from(_, _)
headings_from(blocks, k) ==
    IF k > Len(blocks) THEN <<>>
    ELSE LET current == blocks[k]
         IN  IF /\ current.type = "text"
                /\ bare_id(current.content)
                /\ k + 1 <= Len(blocks)
                /\ blocks[k + 1].type = "text"
               THEN << [type |-> "text",
                        content |-> Strip(current.content) \o <<" ">>
                                       \o Strip(blocks[k + 1].content)] >>
                      \o headings_from(blocks, k + 2)
               ELSE <<current>> \o headings_from(blocks, k + 1)
merge_headings(blocks) == headings_from(blocks, 1)

\* ---- the passes of extract_clean_text, applied in their order to a page's
\* blocks, each possibly again to its own output
PassRank(name) ==
    IF name = "merge_vertical_math" THEN 1
    ELSE IF name = "merge_equation_stacks" THEN 2
    ELSE 3
MayRun(name) ==
    /\ mpc = "passes"
    /\ m_passes < MaxPasses
    /\ m_log # <<>> => PassRank(m_log[Len(m_log)]) <= PassRank(name)
RunPass(name, out) ==
    /\ m_prev' = m_blocks
    /\ m_blocks' = out
    /\ m_passes' = m_passes + 1
    /\ m_log' = Append(m_log, name)
    /\ mpc' = mpc
    /\ UNCHANGED rest_of_merge

PassVerticalMath ==
    /\ MayRun("merge_vertical_math")
    /\ RunPass("merge_vertical_math", merge_vertical_math(m_blocks))
PassEquationStacks ==
    /\ MayRun("merge_equation_stacks")
    /\ RunPass("merge_equation_stacks", merge_equation_stacks(m_blocks, PageWidth))
PassHeadings ==
    /\ MayRun("merge_headings")
    /\ RunPass("merge_headings", merge_headings(m_blocks))

P_id == <<"6", ".", "1">>
PassTexts == {M_eq, M_plus, M_word, P_id}
PassBlock(t, x, y) ==
    [type |-> "text", content |-> t, x0 |-> x, y0 |-> y, x1 |-> x + 200,
     centroid_x |-> (x + x + 200) \div 2]
P_image == [type |-> "image", content |-> <<>>, x0 |-> 50, y0 |-> 205, x1 |-> 250,
            centroid_x |-> 150]
PassBlocks == {PassBlock(t, x, y) : t \in PassTexts, x \in {50, 200}, y \in {200, 211, 224}}
                 \cup {P_image}

InitPasses ==
    /\ m_blocks \in SeqsUpTo(PassBlocks, MaxPassBlocks)
    /\ m_prev = <<>>
    /\ m_passes = 0
    /\ m_log = <<>>
    /\ mpc = "passes"
    /\ BuilderStart /\ bpc = "idle" /\ ClassifierIdle /\ FigIdle /\ LaterIdle
NextPasses == PassVerticalMath \/ PassEquationStacks \/ PassHeadings
SpecPasses == InitPasses /\ [][NextPasses]_vars

\* ------------------------------------------------------------------ FinalCleanExtractor.extract_page_blocks
MaxRawBlocks == 3
HEADER_CUTOFF == 120
FOOTER_CUTOFF == 750

\* re.match(r'^6\.\d+$', current)
section_id_only(text) ==
    /\ At(text, 1, <<"6", ".">>)
    /\ DigitsEnd(text, 3) > 3
    /\ DigitsEnd(text, 3) = Len(text) + 1
\* re.match(r'^6\.', next_text)
starts_section_id(text) == At(text, 1, <<"6", ".">>)

\* merge_split_headings: blocks[i..] appended to merged
RECURSIVE split_headings_from(_, _)
split_headings_from(blocks, i) ==
    IF i > Len(blocks) THEN <<>>
    ELSE LET current == Strip(blocks[i].text)
             next_text == Strip(blocks[i + 1].text)
         IN  IF /\ section_id_only(current)
                /\ i + 1 <= Len(blocks)
                /\ next_text # <<>>
                /\ ~starts_section_id(next_text)
               THEN <<[text |-> current \o <<" ">> \o next_text]>>
                      \o split_headings_from(blocks, i + 2)
               ELSE <<[text |-> current]>> \o split_headings_from(blocks, i + 1)
merge_split_headings(blocks) == split_headings_from(blocks, 1)

\* clean_blocks.sort(key=lambda b: (b["y0"], b["x0"])), a stable sort
comes_after(a, b) == a.y0 > b.y0 \/ (a.y0 = b.y0 /\ a.x0 > b.x0)
RECURSIVE InsertByYX(_, _)
InsertByYX(b, sorted) ==
    IF sorted = <<>> THEN <<b>>
    ELSE IF ~comes_after(b, Head(sorted)) THEN <<b>> \o sorted
    ELSE <<Head(sorted)>> \o InsertByYX(b, Tail(sorted))
RECURSIVE SortByYX(_)
SortByYX(col) == IF col = <<>> THEN <<>> ELSE InsertByYX(Head(col), SortByYX(Tail(col)))

\* the two filters of the for loop (lines 85-89)
outside_cutoffs(y0) == y0 < HEADER_CUTOFF \/ y0 > FOOTER_CUTOFF

\* One iteration of `for block in raw_blocks`.
XBlock ==
    /\ xpc = "loop"
    /\ x_i < Len(x_raw)
    /\ LET block == x_raw[x_i + 1]
           width == block.x1 - block.x0
           text == Strip(block.text)
       IN  IF outside_cutoffs(block.y0) \/ is_noise(text, width)
             THEN UNCHANGED clean_blocks
             ELSE clean_blocks' = Append(clean_blocks,
                                         [text |-> text, x0 |-> block.x0, y0 |-> block.y0])
    /\ x_i' = x_i + 1
    /\ UNCHANGED <<x_raw, xpc>>
    /\ UNCHANGED rest_of_extract

\* After the loop: the sort, merge_split_headings and the return.
XReturn ==
    /\ xpc = "loop"
    /\ x_i = Len(x_raw)
    /\ clean_blocks' = merge_split_headings(SortByYX(clean_blocks))
    /\ xpc' = "returned"
    /\ UNCHANGED <<x_raw, x_i>>
    /\ UNCHANGED rest_of_extract

\* ---- the raw blocks of a page
X_id    == <<"6", ".", "1">>
X_id10  == <<"6", ".", "1", "0">>
X_title == <<"I","n","t","r","o","d","u","c","t","i","o","n">>
RawTexts == {X_id, X_id10, X_title, T_body}
RawY0 == {100, 130, 160, 760}
RawWidths == {80, 200}
RawBlock(t, y, w) == [text |-> t, x0 |-> 50, y0 |-> y, x1 |-> 50 + w, y1 |-> y + 20]
RawBlocks == {RawBlock(t, y, w) : t \in RawTexts, y \in RawY0, w \in RawWidths}
\* the blocks of a page lie at different heights
RawPages == {b \in SeqsUpTo(RawBlocks, MaxRawBlocks) :
                \A m, n \in 1..Len(b) : m # n => b[m].y0 # b[n].y0}

InitExtract ==
    /\ x_raw \in RawPages
    /\ x_i = 0
    /\ clean_blocks = <<>>
    /\ xpc = "loop"
    /\ EarlierIdle /\ AIdle /\ QIdle /\ GIdle
NextExtract == XBlock \/ XReturn
SpecExtract == InitExtract /\ [][NextExtract]_vars

\* ------------------------------------------------------------------ get_smart_diagram_areas, drawing by drawing
MaxDrawings == 3

\* One iteration of `for p in paths`.
AreaDrawing ==
    /\ apc = "loop"
    /\ a_k < Len(a_paths)
    /\ a_bboxes' = add_drawing(a_paths[a_k + 1], a_bboxes)
    /\ a_k' = a_k + 1
    /\ UNCHANGED <<a_paths, apc>>
    /\ UNCHANGED rest_of_areas

\* return diagram_bboxes
AreaReturn ==
    /\ apc = "loop"
    /\ a_k = Len(a_paths)
    /\ apc' = "returned"
    /\ UNCHANGED <<a_paths, a_k, a_bboxes>>
    /\ UNCHANGED rest_of_areas

\* ---- the drawings of a page: two far apart, one between them within 50
\* points of both, one 3 points wide, one away from all
R_a    == Rect(100, 100, 140, 140)
R_b    == Rect(170, 100, 230, 140)
R_c    == Rect(260, 100, 300, 140)
R_tiny == Rect(180, 100, 183, 140)
R_far  == Rect(400, 300, 450, 350)
DrawingRects == {R_a, R_b, R_c, R_tiny, R_far}

InitAreas ==
    /\ a_paths \in SeqsUpTo(DrawingRects, MaxDrawings)
    /\ a_k = 0
    /\ a_bboxes = <<>>
    /\ apc = "loop"
    /\ EarlierIdle /\ XIdle /\ QIdle /\ GIdle
NextAreas == AreaDrawing \/ AreaReturn
SpecAreas == InitAreas /\ [][NextAreas]_vars

\* ------------------------------------------------------------------ PhysicsRetriever.retrieve
MaxPoints == 4

\* A chapter_filter argument: None, a list of chapter ids or a string.
NoneFilter == [kind |-> "none", ids |-> <<>>]
ListFilter(ids) == [kind |-> "list", ids |-> ids]
StrFilter(id) == [kind |-> "str", ids |-> <<id>>]
ALL_CHAPTERS == "All Chapters"

\* bool(chapter_filter): None, [] and "" are false
truthy(f) == f.kind # "none" /\ f.ids # <<>> /\ f.ids # <<"">>

\* query_filter as lines 104-127 build it; "returns" stands for `return []`
build_filter(f) ==
    IF truthy(f) /\ f # ListFilter(<<ALL_CHAPTERS>>)
      THEN IF f.kind = "list"
             THEN IF Len(f.ids) = 0 THEN [op |-> "returns", ids |-> {}]
                  ELSE [op |-> "should", ids |-> {f.ids[k] : k \in 1..Len(f.ids)}]
             ELSE [op |-> "must", ids |-> {f.ids[1]}]
      ELSE [op |-> "None", ids |-> {}]

\* the points of the collection: chapter id, and whether the fused score of
\* the point reaches score_threshold for the query
PointChapter == <<"ch6", "ch6", "ch7", "ch7">>
PointScores == <<TRUE, FALSE, TRUE, TRUE>>
\* client.query_points(..., limit=top_k, query_filter=..., score_threshold=0.3).points,
\* best first
RECURSIVE ranked(_, _)
ranked(ids, from) ==
    IF from > MaxPoints THEN <<>>
    ELSE IF from \in ids THEN <<from>> \o ranked(ids, from + 1)
    ELSE ranked(ids, from + 1)
query_points(points, limit, query_filter) ==
    LET hits == {p \in points :
                    /\ PointScores[p]
                    /\ (query_filter.op = "None" \/ PointChapter[p] \in query_filter.ids)}
        all == ranked(hits, 1)
    IN  SubSeq(all, 1, Min(limit, Len(all)))

\* One call of retrieve.
Retrieve ==
    /\ qpc = "called"
    /\ LET query_filter == build_filter(q_filter)
       IN  IF query_filter.op = "returns"
             THEN /\ q_result' = <<>>
                  /\ UNCHANGED q_calls
             ELSE /\ q_calls' = Append(q_calls, query_filter)
                  /\ q_result' = query_points(q_points, q_top_k, query_filter)
    /\ qpc' = "returned"
    /\ UNCHANGED <<q_filter, q_top_k, q_points>>
    /\ UNCHANGED rest_of_retrieve

\* ---- the calls of retrieve
ChapterFilters ==
    {NoneFilter, ListFilter(<<>>), ListFilter(<<ALL_CHAPTERS>>), ListFilter(<<"ch6">>),
     ListFilter(<<"ch6", "ch7">>), StrFilter("ch7"), StrFilter("")}

InitRetrieve ==
    /\ q_filter \in ChapterFilters
    /\ q_top_k \in {1, 20}
    /\ q_points \in SUBSET (1..MaxPoints)
    /\ q_calls = <<>>
    /\ q_result = <<>>
    /\ qpc = "called"
    /\ EarlierIdle /\ XIdle /\ AIdle /\ GIdle
NextRetrieve == Retrieve
SpecRetrieve == InitRetrieve /\ [][NextRetrieve]_vars

\* ------------------------------------------------------------------ ingest.ingest_data
MaxRawItems == 3
BatchSize == 32
ChunkShare == 20
UploadShare == 80
\* how many chunks chunker.create_documents makes of one item
ChunkCounts == {1, 40}

\* int((idx + 1) / total_raw * 20), idx 0-based
chunk_progress(done, total_raw) == (done * ChunkShare) \div total_raw
\* min(20 + int(current_batch_num / total_batches * 80), 100)
upload_progress(current_batch_num, n_batches) ==
    Min(ChunkShare + (current_batch_num * UploadShare) \div n_batches, 100)
\* (total_docs + batch_size - 1) // batch_size
total_batches(total_docs) == (total_docs + BatchSize - 1) \div BatchSize

report(value) ==
    g_progress' = IF g_in.has_callback THEN Append(g_progress, value) ELSE g_progress

\* what a failed step does (lines 131-133, 190-192, 199-201): log, `return`
returns_early == "failed"

\* Loading the data (lines 126-133).
IngestLoad ==
    /\ gpc = "load"
    /\ gpc' = IF g_in.loadable THEN "chunk" ELSE returns_early
    /\ UNCHANGED <<g_in, g_idx, g_docs, g_batch, g_progress, g_col, g_upserted, g_reported>>
    /\ UNCHANGED rest_of_ingest

\* One iteration of `for idx, item in enumerate(raw_items)` (lines 145-180).
IngestChunk ==
    /\ gpc = "chunk"
    /\ g_idx < g_in.n_items
    /\ \E chunks \in ChunkCounts : g_docs' = g_docs + chunks
    /\ g_idx' = g_idx + 1
    /\ report(chunk_progress(g_idx + 1, g_in.n_items))
    /\ UNCHANGED <<g_in, g_batch, g_col, g_upserted, g_reported, gpc>>
    /\ UNCHANGED rest_of_ingest

\* After the chunking loop: the client is initialised and verified and the
\* collection is re-created (lines 184-212).
IngestClient ==
    /\ gpc = "chunk"
    /\ g_idx = g_in.n_items
    /\ IF (~g_in.client_given /\ ~g_in.init_ok) \/ ~g_in.conn_ok
         THEN /\ gpc' = returns_early
              /\ UNCHANGED <<g_col, g_upserted>>
         ELSE /\ gpc' = "upload"
              /\ g_col' = "new"
              /\ g_upserted' = 0
    /\ UNCHANGED <<g_in, g_idx, g_docs, g_batch, g_progress, g_reported>>
    /\ UNCHANGED rest_of_ingest

\* One iteration of `for i in range(0, total_docs, batch_size)` (lines 222-252).
IngestBatch ==
    /\ gpc = "upload"
    /\ g_batch * BatchSize < g_docs
    /\ g_upserted' = g_upserted + Min(BatchSize, g_docs - g_batch * BatchSize)
    /\ g_batch' = g_batch + 1
    /\ report(upload_progress(g_batch + 1, total_batches(g_docs)))
    /\ UNCHANGED <<g_in, g_idx, g_docs, g_col, g_reported, gpc>>
    /\ UNCHANGED rest_of_ingest

\* log("Ingestion complete! ...") (line 255)
IngestComplete ==
    /\ gpc = "upload"
    /\ g_batch * BatchSize >= g_docs
    /\ gpc' = "complete"
    /\ UNCHANGED <<g_in, g_idx, g_docs, g_batch, g_progress, g_col, g_upserted, g_reported>>
    /\ UNCHANGED rest_of_ingest

\* ingest_data has returned to run_pdf_pipeline, which prints "Complete!" and
\* returns run_dir, json_path, images_dir (pipeline.py lines 42-45).
PipelineReturns ==
    /\ gpc \in {"failed", "complete"}
    /\ ~g_reported
    /\ g_reported' = TRUE
    /\ UNCHANGED <<g_in, g_idx, g_docs, g_batch, g_progress, g_col, g_upserted, gpc>>
    /\ UNCHANGED rest_of_ingest

\* ---- the calls of ingest_data
IngestCalls ==
    [loadable : BOOLEAN, n_items : 0..MaxRawItems, client_given : BOOLEAN,
     init_ok : BOOLEAN, conn_ok : BOOLEAN, has_callback : BOOLEAN]

InitIngest ==
    /\ g_in \in IngestCalls
    /\ g_idx = 0
    /\ g_docs = 0
    /\ g_batch = 0
    /\ g_progress = <<>>
    /\ g_col \in {"absent", "old"}
    /\ g_upserted = 0
    /\ g_reported = FALSE
    /\ gpc = "load"
    /\ EarlierIdle /\ XIdle /\ AIdle /\ QIdle
NextIngest == IngestLoad \/ IngestChunk \/ IngestClient \/ IngestBatch
                \/ IngestComplete \/ PipelineReturns
SpecIngest == InitIngest /\ [][NextIngest]_vars

\* ------------------------------------------------------------------ main.inject_images_in_text
\* os.path.basename(path)
RECURSIVE basename(_)
basename(path) ==
    LET slashes == {p \in 1..Len(path) : path[p] = "/"}
    IN  IF slashes = {} THEN path
        ELSE basename(SubSeq(path, (CHOOSE p \in slashes : TRUE) + 1, Len(path)))

\* fig_label: "Fig. " + filename.replace("fig_", "").replace(".png", "").replace("_", ".")
figure_number(filename) ==
    LET bare == RemoveAll(RemoveAll(filename, <<"f","i","g","_">>), <<".","p","n","g">>)
    IN  [p \in 1..Len(bare) |-> IF bare[p] = "_" THEN "." ELSE bare[p]]
fig_label(path) == <<"F","i","g","."," ">> \o figure_number(basename(path))

\* f"\n\n[[IMAGE::{path}]]\n\n"
placeholder(path) ==
    <<"\n", "\n", "[", "[", "I","M","A","G","E", ":", ":">> \o path \o <<"]", "]", "\n", "\n">>

\* response_text.replace(fig_label, fig_label + placeholder, 1)
replace_first(text, lit, new) ==
    LET starts == {p \in 1..Len(text) : At(text, p, lit)}
        p == CHOOSE p \in starts : \A r \in starts : p <= r
    IN  IF starts = {} THEN text
        ELSE SubSeq(text, 1, p - 1) \o new \o SubSeq(text, p + Len(lit), Len(text))

RECURSIVE inject_images_in_text(_, _)
inject_images_in_text(response_text, image_paths) ==
    IF image_paths = <<>> THEN response_text
    ELSE LET path == Head(image_paths)
             label == fig_label(path)
         IN  inject_images_in_text(
                 IF Contains(response_text, label)
                   THEN replace_first(response_text, label, label \o placeholder(path))
                   ELSE response_text,
                 Tail(image_paths))

\* ------------------------------------------------------------------ claims on build_hierarchy
\* A loop iteration has run, and the item it consumed.
Stepped == Len(consumed') = Len(consumed) + 1
StepItem == consumed'[Len(consumed')]

\* The leading id of a heading text: the characters before its first blank.
LeadingId(v) ==
    LET sp == {i \in 1..Len(v) : v[i] = " "}
    IN  IF sp = {} THEN v
        ELSE SubSeq(v, 1, (CHOOSE i \in sp : \A j \in sp : i <= j) - 1)
Dots(tag) == Cardinality({i \in 1..Len(tag) : tag[i] = "."})

\* The sections that hold Subsection k in their subsections list.
Owners(k) == {s \in 1..Len(sections) :
                 \E j \in 1..Len(sections[s].subsections) : sections[s].subsections[j] = k}

\* A one-dot heading appends a Section with that id at the end of the list.
AppendsSection(v) ==
    /\ Len(sections') = Len(sections) + 1
    /\ SubSeq(sections', 1, Len(sections)) = sections
    /\ sections'[Len(sections')].id = LeadingId(v)
    /\ sections'[Len(sections')].subsections = <<>>

\* A two-dot heading appends a Subsection with that id to the open Section,
\* which is the last of the list.
AppendsSubsection(v) ==
    /\ curr_sec = Len(sections)
    /\ Len(subsecs') = Len(subsecs) + 1
    /\ subsecs'[Len(subsecs')].id = LeadingId(v)
    /\ Len(sections') = Len(sections)
    /\ sections'[curr_sec].subsections =
           Append(sections[curr_sec].subsections, Len(subsecs'))
    /\ \A s \in 1..Len(sections) : s # curr_sec => sections'[s] = sections[s]

\* C1 (as stated): for every classified stream, a one-dot HEADING appends a new
\* Section carrying its id to the end of the sections list, and a two-dot HEADING
\* seen while a Section is open appends a new Subsection carrying its id to the
\* subsections of the open Section.
C1_HeadingAlwaysOpens ==
    [][ (Stepped /\ StepItem.type = "HEADING") =>
          /\ (Dots(LeadingId(StepItem.value)) = 1 => AppendsSection(StepItem.value))
          /\ (Dots(LeadingId(StepItem.value)) = 2 /\ curr_sec # 0
                 => AppendsSubsection(StepItem.value)) ]_vars

\* C1 (amended): the same, for a HEADING consumed while the exercise latch is
\* not set; with the latch set the heading goes to the exercises list.
C1_HeadingOpensOutsideExercises ==
    [][ (Stepped /\ StepItem.type = "HEADING") =>
          IF in_exercises
            THEN /\ exercises' = Append(exercises, StepItem.value)
                 /\ sections' = sections /\ subsecs' = subsecs
            ELSE /\ (Dots(LeadingId(StepItem.value)) = 1
                        => AppendsSection(StepItem.value))
                 /\ (Dots(LeadingId(StepItem.value)) = 2 /\ curr_sec # 0
                        => AppendsSubsection(StepItem.value)) ]_vars

\* C1 witness: Section 6.1 holds Subsection 6.1.1 and Section 6.2 follows it.
C1_Witness ==
    /\ Len(sections) = 2
    /\ sections[1].id = <<"6", ".", "1">>
    /\ sections[2].id = <<"6", ".", "2">>
    /\ Len(sections[1].subsections) = 1
    /\ subsecs[sections[1].subsections[1]].id = <<"6", ".", "1", ".", "1">>

\* C2: a CONTENT item consumed before exercise mode is appended to the current
\* Subsection if one is open, else to the current Section if one is open, else
\* to the preamble; and CONTENT that follows a one-dot HEADING goes to the
\* Section that heading opened, not to a Subsection of the previous Section.
C2_ContentToInnermostScope ==
    [][ (Stepped /\ StepItem.type = "CONTENT" /\ ~in_exercises) =>
          /\ IF curr_subsec # 0
               THEN /\ subsecs' = [subsecs EXCEPT ![curr_subsec].content =
                                       Append(@, StepItem.value)]
                    /\ sections' = sections /\ preamble' = preamble
               ELSE IF curr_sec # 0
                 THEN /\ sections' = [sections EXCEPT ![curr_sec].content =
                                          Append(@, StepItem.value)]
                      /\ subsecs' = subsecs /\ preamble' = preamble
                 ELSE /\ preamble' = Append(preamble, StepItem.value)
                      /\ has_preamble'
                      /\ sections' = sections /\ subsecs' = subsecs
          /\ exercises' = exercises
          /\ (/\ consumed # <<>>
              /\ consumed[Len(consumed)].type = "HEADING"
              /\ Dots(LeadingId(consumed[Len(consumed)].value)) = 1)
             => /\ sections'[Len(sections)].content =
                       Append(sections[Len(sections)].content, StepItem.value)
                /\ sections[Len(sections)].id = LeadingId(consumed[Len(consumed)].value)
                /\ subsecs' = subsecs ]_vars

\* C2 witness: content placed in Section 6.2 after Section 6.1 had an open Subsection.
C2_Witness ==
    /\ Len(sections) = 2
    /\ Len(sections[1].subsections) = 1
    /\ subsecs[1].content = <<>>
    /\ sections[2].content = <<T_body>>
    /\ ~in_exercises

\* An item of the consumed prefix that carries the EXERCISES marker.
MarkerSeen ==
    \E k \in 1..Len(consumed) :
        /\ consumed[k].type = "EXERCISE"
        /\ Contains(Upper(consumed[k].value), EXERCISES)

C4_OrphanSubsectionKept ==
    [][ (/\ Stepped /\ ~in_exercises /\ StepItem.type = "HEADING"
         /\ Dots(LeadingId(StepItem.value)) = 2 /\ curr_sec = 0) =>
          /\ Len(sections') = Len(sections) + 1
          /\ \E j \in 1..Len(sections'[Len(sections')].subsections) :
                subsecs'[sections'[Len(sections')].subsections[j]].id =
                    LeadingId(StepItem.value) ]_vars

\* C10: after every consumed item, every Subsection opened so far is in the
\* subsections list of exactly one Section, the one most recently opened when
\* its heading was consumed.
C10_SubsectionHasOneOwner ==
    [][ Stepped =>
          /\ \A k \in 1..Len(subsecs') :
                Cardinality({s \in 1..Len(sections') :
                    \E j \in 1..Len(sections'[s].subsections) :
                        sections'[s].subsections[j] = k}) = 1
          /\ Len(subsecs') = Len(subsecs) + 1 =>
                /\ Len(sections) >= 1
                /\ \E j \in 1..Len(sections'[Len(sections)].subsections) :
                      sections'[Len(sections)].subsections[j] = Len(subsecs') ]_vars

\* ------------------------------------------------------------------ claims on classify_and_clean
\* LEFT as the claim states it: x0 < page_width * split fraction (0.5).
IsLeft(src) == 2 * src.bbox.x0 < doc[src.page].width

\* C5: on every page every emitted item of a LEFT block precedes every emitted
\* item of a RIGHT block, and within a column items are emitted in ascending y0,
\* also when a RIGHT block lies higher than a LEFT block.
C5_ReadingOrder ==
    \A a, b \in 1..Len(item_src) :
        (a < b /\ item_src[a].page = item_src[b].page) =>
            /\ ~(~IsLeft(item_src[a]) /\ IsLeft(item_src[b]))
            /\ (IsLeft(item_src[a]) = IsLeft(item_src[b])
                   => item_src[a].bbox.y0 <= item_src[b].bbox.y0)

\* C5 witness: the raw blocks come bottom-up, a RIGHT block lies higher than the
\* lower LEFT block, and all three were emitted.
C5_Witness ==
    /\ cpc = "closed"
    /\ Len(doc[1].blocks) = 3
    /\ Len(item_src) = 3
    /\ doc[1].blocks[1].bbox.y0 > doc[1].blocks[2].bbox.y0
    /\ doc[1].blocks[1].bbox.x0 = doc[1].blocks[2].bbox.x0
    /\ IsLeft(item_src[1]) /\ IsLeft(item_src[2]) /\ ~IsLeft(item_src[3])
    /\ item_src[3].bbox.y0 < item_src[2].bbox.y0

\* The page of the end-to-end scenario: LEFT "6.1 INTRODUCTION" above LEFT
\* "A rigid body is...", one RIGHT "6.2 CENTRE OF MASS", no drawings.
ScenarioPage(page) ==
    /\ page.drawings = <<>>
    /\ Len(page.blocks) = 3
    /\ \E h, c, r \in 1..3 :
          /\ {h, c, r} = 1..3
          /\ page.blocks[h].spans = <<T_61>>
          /\ page.blocks[c].spans = <<T_body>>
          /\ page.blocks[r].spans = <<T_62>>
          /\ 2 * page.blocks[h].bbox.x0 < page.width
          /\ 2 * page.blocks[c].bbox.x0 < page.width
          /\ 2 * page.blocks[r].bbox.x0 >= page.width
          /\ page.blocks[h].bbox.y0 < page.blocks[c].bbox.y0

\* C6: for the scenario page the returned tree has exactly the sections 6.1 with
\* content ["A rigid body is..."] and 6.2 with empty content, in that order, no
\* exercises and no preamble key.
C6_EndToEnd ==
    (Len(doc) = 1 /\ ScenarioPage(doc[1]) /\ bpc = "done") =>
        /\ root.sections =
              << [id |-> <<"6", ".", "1">>, title |-> T_61,
                  content |-> <<T_body>>, subsections |-> <<>>],
                 [id |-> <<"6", ".", "2">>, title |-> T_62,
                  content |-> <<>>, subsections |-> <<>>] >>
        /\ root.exercises = <<>>
        /\ ~root.has_preamble

\* C6 witness: the scenario has run to the returned tree, the RIGHT block lying
\* higher than the LEFT paragraph and coming first in the raw block list.
C6_Witness ==
    /\ Len(doc) = 1 /\ ScenarioPage(doc[1]) /\ bpc = "done"
    /\ doc[1].blocks[1].spans = <<T_62>>
    /\ doc[1].blocks[1].bbox.y0 < doc[1].blocks[3].bbox.y0
    /\ Len(sections) = 2

\* The texts the noise rule names: "(a)", "", "   " and a 2-character fragment.
NoiseTexts == {T_a, <<>>, T_blank, T_ab}

\* the strings of every output list: the classified stream and the tree
OutputStrings ==
    {all_items[k].value : k \in 1..Len(all_items)}
      \cup UNION {{sections[s].content[k] : k \in 1..Len(sections[s].content)} :
                     s \in 1..Len(sections)}
      \cup UNION {{subsecs[s].content[k] : k \in 1..Len(subsecs[s].content)} :
                     s \in 1..Len(subsecs)}
      \cup {preamble[k] : k \in 1..Len(preamble)}
      \cup {exercises[k] : k \in 1..Len(exercises)}

\* C9: a text block whose text is "(a)", empty, blank or a 2-character fragment
\* is noise for is_noise and appears in no output list: not in the classified
\* stream and not in any list of the tree.
C9_NoiseExcluded ==
    \A p \in 1..Len(doc) : \A k \in 1..Len(doc[p].blocks) :
        LET b == doc[p].blocks[k]
        IN  (b.kind = "text" /\ JoinSp(b.spans) \in NoiseTexts) =>
               /\ is_noise(JoinSp(b.spans), rect_width(b.bbox))
               /\ (Strip(JoinSp(b.spans)) # <<>>
                      => Strip(JoinSp(b.spans)) \notin OutputStrings)

\* ------------------------------------------------------------------ claims on the merge passes
\* C7: merge_vertical_math applied to its own output returns the sequence the
\* first application returned, for every sequence order_by_columns produces.
C7_MergeIdempotent ==
    (mpc = "merged" /\ m_passes >= 2) => m_blocks = m_prev

\* ------------------------------------------------------------------ claims on the figure extractor
\* The file name the claim states for chapter N, figure M and sub-letter sub.
ExpectedName(N, M, sub) ==
    IF sub = <<>>
      THEN <<"f","i","g","_">> \o N \o <<"_">> \o M \o <<".","p","n","g">>
      ELSE <<"f","i","g","_">> \o N \o <<"_">> \o M \o <<"_">> \o sub
             \o <<".","p","n","g">>

\* C8: a caption with chapter N, figure M and no sub-letter is saved as
\* fig_N_M.png, one with sub-letter (s) as fig_N_M_s.png, whatever precedes the
\* caption in the line; so captions with the same (N, M, s) share one file.
C8_FilenameFromCaption ==
    /\ \A k \in 1..Len(fig_saved) :
          \A p \in Prefixes, N \in Chapters, M \in Figs, sub \in Subs :
              fig_saved[k].line = Caption(p, N, M, sub)
                 => fig_saved[k].filename = ExpectedName(N, M, sub)
    /\ \A k \in 1..Len(fig_saved) : fig_saved[k].filename \in fig_files

\* C8 witness: two different caption lines with the same (6, 7, a) were saved
\* under the one name fig_6_7_a.png.
C8_Witness ==
    \E k1, k2 \in 1..Len(fig_saved) :
        /\ fig_saved[k1].line # fig_saved[k2].line
        /\ fig_saved[k1].filename = <<"f","i","g","_","6","_","7","_","a",".","p","n","g">>
        /\ fig_saved[k2].filename = fig_saved[k1].filename

\* ------------------------------------------------------------------ claims on failures
\* C11: a failure of rendering or saving the image of one caption or diagram is
\* caught and the diagram skipped; it never ends extract_figures or
\* classify_and_clean with the exception.
C11_FailureNeverAborts == fpc # "raised" /\ cpc # "raised"

\* ------------------------------------------------------------------ claims on the exercise state
\* C13: once in_exercises is true it stays true, and no later item of any type
\* changes the sections list, a section's content or subsections, a
\* subsection, or the preamble.
C13_ExercisesTerminal ==
    [][in_exercises =>
          /\ in_exercises'
          /\ sections' = sections
          /\ subsecs' = subsecs
          /\ preamble' = preamble
          /\ has_preamble' = has_preamble]_vars

\* C13 witness: after a section was opened and the marker consumed, a HEADING
\* and a CONTENT item were consumed and went to the exercises list.
C13_Witness ==
    /\ in_exercises
    /\ Len(consumed) = 4
    /\ consumed[1].type = "HEADING" /\ Len(sections) = 1
    /\ consumed[2].type = "EXERCISE"
    /\ consumed[3].type = "HEADING"
    /\ consumed[4].type = "CONTENT"
    /\ Len(exercises) = 3
    /\ sections[1].content = <<>>

\* C14: in the pipeline a text block whose trimmed text is "EXERCISES" is
\* classified EXERCISE and appended to the exercises list of the tree, and so is
\* every block emitted after it.
C14_MarkerStartsExercises ==
    /\ \A k \in 1..Len(all_items) :
          Strip(all_items[k].value) = EXERCISES => all_items[k].type = "EXERCISE"
    /\ bpc = "done" =>
          \A k \in 1..Len(all_items) :
              Strip(all_items[k].value) = EXERCISES =>
                  \A j \in k..Len(all_items) :
                      \E e \in 1..Len(exercises) : exercises[e] = all_items[j].value

C15_ExerciseOutranksFigure ==
    \A k \in 1..Len(k_out) :
        /\ heading_match(k_out[k].text) => k_out[k].type = "HEADING"
        /\ (has_exercise_keyword(k_out[k].text) /\ ~heading_match(k_out[k].text))
              => k_out[k].type = "EXERCISE"

\* C16: once a block containing the EXERCISES marker has been classified
\* EXERCISE, every later block of the document is emitted with type EXERCISE.
C16_OneWayFlip ==
    \A a, b \in 1..Len(k_out) :
        (a < b /\ k_out[a].type = "EXERCISE" /\ Contains(k_out[a].text, EXERCISES))
            => k_out[b].type = "EXERCISE"

\* ------------------------------------------------------------------ claims on the step2 builders
\* the block build has just iterated over
NStepped == Len(n_seen') = Len(n_seen) + 1
NStepBlock == n_seen'[Len(n_seen')]
NothingStored(self) ==
    /\ self.sections = <<>>
    /\ self.summary = <<>>
    /\ self.points_to_ponder = <<>>
    /\ self.exercises = <<>>
    /\ self.orphan = <<>>

\* C17: before a block matching the real first-section pattern has been seen no
\* Section or Subsection is added and no content is stored; the block that
\* matches it sets started_real_content and itself opens the first Section;
\* started_real_content never becomes false again.
C17_TocSkippedUntilRealStart ==
    [][/\ ~ncert'.started_real_content => NothingStored(ncert')
       /\ ncert.started_real_content => ncert'.started_real_content
       /\ (/\ NStepped
           /\ ~ncert.started_real_content
           /\ NStepBlock.type = "text"
           /\ is_real_section_start(NStepBlock.content))
             => /\ ncert'.started_real_content
                /\ Len(ncert'.sections) = 1
                /\ ncert'.sections[1].section_number = <<"6", ".", "1">>]_vars

\* C18: chapter_title is set at most once, to the text of the first block that
\* is all-uppercase and passes the chapter-title substring test, verbatim; once
\* it is non-empty no later block changes it, and a block that is not
\* all-uppercase is never taken as the title.
C18_TitleOnceFromUppercase ==
    [][/\ enh.chapter_title # <<>> => enh'.chapter_title = enh.chapter_title
       /\ enh'.chapter_title # enh.chapter_title =>
             /\ Len(e_seen') = Len(e_seen) + 1
             /\ enh'.chapter_title = Strip(e_seen'[Len(e_seen')].content)
             /\ IsUpperStr(enh'.chapter_title)
             /\ (Contains(enh'.chapter_title, MOTION)
                    \/ Contains(enh'.chapter_title, SYSTEMS))]_vars

\* ------------------------------------------------------------------ claims on the three merge passes
\* out consists of the blocks of in, in order, where a run of consecutive text
\* blocks may be replaced by one text block with their space-joined texts
RECURSIVE IsRunJoin(_, _)
IsRunJoin(in, out) ==
    IF out = <<>> THEN in = <<>>
    ELSE \E n \in 1..Len(in) :
            /\ \/ (n = 1 /\ out[1] = in[1])
               \/ /\ out[1].type = "text"
                  /\ \A m \in 1..n : in[m].type = "text"
                  /\ out[1].content = JoinSp([m \in 1..n |-> in[m].content])
            /\ IsRunJoin(SubSeq(in, n + 1, Len(in)), Tail(out))

LastPass == m_log[Len(m_log)]

\* C19: each of the three merge passes preserves the order and loses nothing:
\* every input block's text goes to exactly one output block, the output
\* blocks follow the order of their first input block, and a merged block's
\* text is the space-joined texts of a run of consecutive input blocks.
C19_PassesPreserveOrder ==
    (mpc = "passes" /\ m_log # <<>>) => IsRunJoin(m_prev, m_blocks)

\* C19 witness: merge_vertical_math merged the first two of three blocks and
\* merge_equation_stacks then joined the result with the third.
C19_Witness ==
    /\ mpc = "passes"
    /\ m_log = <<"merge_vertical_math", "merge_equation_stacks">>
    /\ Len(m_prev) = 2
    /\ Contains(m_prev[1].content, <<" ">>)
    /\ Len(m_blocks) = 1
    /\ m_blocks[1].content = m_prev[1].content \o <<" ">> \o m_prev[2].content

CaptionAt(p) ==
    /\ p + 1 <= Len(ordered_blocks)
    /\ ordered_blocks[p].kind = "DIAGRAM"
    /\ ordered_blocks[p + 1].kind = "text"
    /\ figure_match(block_text(ordered_blocks[p + 1]))
\* how many emitted items came from the block at bbox on the current page
EmittedFrom(bbox) ==
    Cardinality({j \in 1..Len(item_src) : item_src[j].bbox = bbox})

\* C22: once the while loop has passed a diagram marker that is followed by a
\* text block matching the figure pattern, the stream holds the marker's
\* "[IMAGE: <path>]" value as CONTENT immediately followed by the caption text
\* as CONTENT, and the caption block has been emitted exactly once.
C22_CaptionPairedOnce ==
    \A p \in 1..Len(ordered_blocks) :
        (cpc \in {"items", "page", "closed"} /\ block_i >= p /\ CaptionAt(p)) =>
            /\ \E j \in 1..(Len(all_items) - 1) :
                  /\ all_items[j] = Item("CONTENT", ordered_blocks[p].value)
                  /\ all_items[j + 1] = Item("CONTENT", block_text(ordered_blocks[p + 1]))
                  /\ item_src[j + 1].bbox = ordered_blocks[p + 1].bbox
            /\ EmittedFrom(ordered_blocks[p + 1].bbox) = 1
C22_Witness ==
    /\ cpc = "closed"
    /\ \E p \in 1..Len(ordered_blocks) : CaptionAt(p) /\ block_i >= p
    /\ Len(all_items) >= 3


\* ------------------------------------------------------------------ claims on content placement
\* the lists of strings reachable from a returned root r: preamble, exercises,
\* the content of every Section of r.sections and of every Subsection in a
\* Section's subsections list
ListKeys(r) ==
    {[l |-> "preamble", s |-> 0, k |-> 0], [l |-> "exercises", s |-> 0, k |-> 0]}
      \cup {[l |-> "section", s |-> s, k |-> 0] : s \in 1..Len(r.sections)}
      \cup UNION {{[l |-> "subsection", s |-> s, k |-> k] :
                      k \in 1..Len(r.sections[s].subsections)} : s \in 1..Len(r.sections)}
ListOf(r, key) ==
    IF key.l = "preamble" THEN r.preamble
    ELSE IF key.l = "exercises" THEN r.exercises
    ELSE IF key.l = "section" THEN r.sections[key.s].content
    ELSE r.sections[key.s].subsections[key.k].content

\* C26: every item whose type is not HEADING is appended to exactly one list
\* reachable from the returned root (a Section's content, the content of a
\* Subsection in a Section's subsections list, preamble or exercises) and no
\* reachable list changes otherwise, so each such item appears exactly once and
\* in stream order.
C26_NoContentLoss ==
    [][(Stepped /\ StepItem.type # "HEADING") =>
          \E key \in ListKeys(root) :
              /\ ListOf(root', key) = Append(ListOf(root, key), StepItem.value)
              /\ \A other \in ListKeys(root) \ {key} :
                    ListOf(root', other) = ListOf(root, other)]_vars


\* ------------------------------------------------------------------ claims on extract_page_blocks
\* the raw blocks in (y0, x0) order
RawInOrder == SortByYX(x_raw)
KeptByPosition(b) == ~outside_cutoffs(b.y0) /\ b.x1 - b.x0 >= SidebarWidth
\* a bare section id directly followed by a title block, both inside the
\* cutoffs and wide enough
SplitHeadingAt(p) ==
    /\ p + 1 <= Len(RawInOrder)
    /\ RawInOrder[p].text = X_id
    /\ RawInOrder[p + 1].text = X_title
    /\ KeptByPosition(RawInOrder[p]) /\ KeptByPosition(RawInOrder[p + 1])

\* C21: when the page has a raw block "6.1" directly followed in (y0, x0) order
\* by the title block "Introduction", both inside the header/footer cutoffs and
\* at least 100 wide, the list extract_page_blocks returns contains the merged
\* block "6.1 Introduction".
C21_SplitHeadingRepaired ==
    (xpc = "returned" /\ \E p \in 1..Len(RawInOrder) : SplitHeadingAt(p)) =>
        \E k \in 1..Len(clean_blocks) :
            clean_blocks[k].text = X_id \o <<" ">> \o X_title


\* ------------------------------------------------------------------ claims on get_smart_diagram_areas
rect_contains(outer, inner) ==
    /\ outer.x0 <= inner.x0 /\ outer.y0 <= inner.y0
    /\ outer.x1 >= inner.x1 /\ outer.y1 >= inner.y1
\* two rects within 50 points of one another, as line 22 tests it
Near(r1, r2) == intersects(r1, expanded(r2))
\* the drawing is in some area of diagram_bboxes
Covered(rect) == \E n \in 1..Len(a_bboxes) : rect_contains(a_bboxes[n], rect)

\* C23: on return no two areas intersect each other's 50-point expansion, and
\* any two drawings, each at least 5 wide and 5 high, that are within 50
\* points of one another lie in the same returned area.
C23_NearbyDrawingsMerged ==
    apc = "returned" =>
        /\ \A m, n \in 1..Len(a_bboxes) :
              m # n => ~Near(a_bboxes[m], a_bboxes[n])
        /\ \A i, j \in 1..Len(a_paths) :
              (~tiny_artifact(a_paths[i]) /\ ~tiny_artifact(a_paths[j])
                 /\ Near(a_paths[i], a_paths[j])) =>
                 \E n \in 1..Len(a_bboxes) :
                     rect_contains(a_bboxes[n], a_paths[i]) /\ rect_contains(a_bboxes[n], a_paths[j])

\* C30: after every iteration of the loop each drawing processed so far that
\* is at least 5 wide and 5 high is contained in a rect of diagram_bboxes, and
\* an iteration over a drawing narrower or lower than 5 leaves diagram_bboxes
\* as it was.
C30_DrawingsCovered ==
    [][a_k' = a_k + 1 =>
          /\ \A k \in 1..a_k' : ~tiny_artifact(a_paths[k]) =>
                 \E n \in 1..Len(a_bboxes') : rect_contains(a_bboxes'[n], a_paths[k])
          /\ tiny_artifact(a_paths[a_k']) => a_bboxes' = a_bboxes]_vars
\* all three drawings processed: two merged into one area that grew, a tiny
\* one skipped
C30_Witness ==
    /\ apc = "returned"
    /\ a_paths = <<R_a, R_tiny, R_b>>
    /\ a_bboxes = <<Rect(100, 100, 230, 140)>>


\* ------------------------------------------------------------------ claims on image isolation
\* C24: a run on a PDF that can be opened hands its own images_dir
\* (<output_dir>/<run_id>/images) to classify_and_clean, the call is accepted
\* and runs to the end, and the images are written into that directory, so
\* that runs with different run ids write to different paths.
C24_ImagesInRunDir ==
    (rpc \in {"raised", "complete"} /\ pdf_openable) =>
        /\ rpc = "complete"
        /\ step3_image_dir = images_dir(run_id)


\* ------------------------------------------------------------------ claims on retrieve
\* C25: retrieve called with chapter_filter == [] returns the empty list and
\* makes no call of client.query_points without a filter.
C25_EmptySelectionReturnsNothing ==
    (qpc = "returned" /\ q_filter = ListFilter(<<>>)) =>
        /\ q_result = <<>>
        /\ \A c \in 1..Len(q_calls) : q_calls[c].op # "None"


NonDecreasing(seq) == \A k \in 1..(Len(seq) - 1) : seq[k] <= seq[k + 1]

\* C28: with a progress_callback the values passed to it are non-decreasing
\* and lie in 0..100, none exceeds 20 while the chunking loop runs, and once
\* ingest_data has reached "Ingestion complete" the last value passed is 100.
C28_ProgressReaches100 ==
    g_in.has_callback =>
        /\ NonDecreasing(g_progress)
        /\ \A k \in 1..Len(g_progress) : g_progress[k] \in 0..100
        /\ gpc = "chunk" => \A k \in 1..Len(g_progress) : g_progress[k] <= ChunkShare
        /\ gpc = "complete" =>
              (g_progress # <<>> /\ g_progress[Len(g_progress)] = 100)


\* ------------------------------------------------------------------ claims on figure labels
\* the caption label "Fig. N.M" or "Fig. N.M(s)"
CaptionLabel(N, M, sub) == Caption(<<"F","i","g","."," ">>, N, M, sub)

\* C29: for a caption line that is the label "Fig. N.M" or "Fig. N.M(s)", the
\* label inject_images_in_text derives from the file name build_filename gave
\* the figure is that caption label, and in a response text containing the
\* label the image placeholder is inserted directly after it.
C29_LabelRoundTrip ==
    \A k \in 1..Len(fig_saved) :
        \A N \in Chapters, M \in Figs, sub \in Subs :
            fig_saved[k].line = CaptionLabel(N, M, sub) =>
                /\ fig_label(fig_saved[k].filename) = CaptionLabel(N, M, sub)
                /\ inject_images_in_text(<<"(">> \o CaptionLabel(N, M, sub) \o <<")">>,
                                         <<fig_saved[k].filename>>)
                     = <<"(">> \o CaptionLabel(N, M, sub)
                          \o placeholder(fig_saved[k].filename) \o <<")">>

====
